---------------------------- MODULE Spec2Model ----------------------------
(***************************************************************************)
(* Scan lifecycle engine of cloudscan-orchestrator: the scan repository,   *)
(* the request API (CreateScan, UpdateScan, CancelScan, DeleteScan,        *)
(* DeleteProjectScans), the dispatcher, the sweeper and the cleaner, all   *)
(* sharing one relational store, one workload manager (Kubernetes jobs)    *)
(* and one blob service.                                                   *)
(*                                                                         *)
(* A loop tick is a list step followed by one step per listed scan; each   *)
(* per-scan step works on the copy of the row that the list step read, as  *)
(* the Go code does.  An API handler is one step, except CancelScan and    *)
(* CreateFindings, whose read and write are two steps.                     *)
(***************************************************************************)
EXTENDS Integers, Sequences, FiniteSets, TLC

(***************************************************************************)
(* Bounds of the model.                                                    *)
(***************************************************************************)
MaxScans == 2          \* scan rows that can be created
MaxTime == 2           \* the clock runs over 0..MaxTime (days)
MaxTotalFindings == 1  \* largest total_findings an UpdateScan request carries
MaxFindingRows == 2    \* finding rows a scan can have
MaxInFlight == 2       \* CreateFindings calls between their read and write
MaxApiCalls == 3       \* requests the API serves
RetentionDays == 1     \* retention window of the cleaner, in days
DayLength == 3         \* instants of the cleaner's clock in 24 hours
MaxClock == 8          \* the cleaner's clock runs over 0..MaxClock

ScanIds == 1..MaxScans

\* The text of a scan id is 8 characters, a hyphen and the rest; the rest is
\* one character here.  Uuid(p, r) is the text made of 8 times p, then r.
Uuid(p, r) == [i \in 1..10 |-> IF i <= 8 THEN p ELSE IF i = 9 THEN "-" ELSE r]

\* uuid.New() gives every scan a text of its own
UuidAssignments ==
  {f \in [ScanIds -> {Uuid(p, r) : p \in ScanIds, r \in {"a", "b"}}] :
     \A a, b \in ScanIds : a # b => f[a] # f[b]}

\* ids that differ in their first 8 characters
DistinctPrefixes == [id \in ScanIds |-> Uuid(id, "a")]
Times == 0..MaxTime

ScanStatusQueued == "queued"
ScanStatusRunning == "running"
ScanStatusCompleted == "completed"
ScanStatusFailed == "failed"
ScanStatusCancelled == "cancelled"

ScanStatuses ==
  {ScanStatusQueued, ScanStatusRunning, ScanStatusCompleted,
   ScanStatusFailed, ScanStatusCancelled}

\* a nil *string and an empty string are both the empty tuple: the code
\* tests every optional string with `p != nil && *p != ""`
NoString == <<>>

\* the namespace the workload manager creates jobs in (config.Namespace)
ConfigNamespace == <<"cloudscan">>

\* ids the blob service has issued for uploaded source archives
ArtifactIds == {<<"art-123">>}

Projects == {"p1"}

\* no row with that id
NoRow == [id |-> 0]

\* no CancelScan in flight
NoReq == [id |-> 0]

\* the statuses of the proto enum; UNSPECIFIED is the zero value
ProtoStatuses ==
  {"UNSPECIFIED", "QUEUED", "RUNNING", "COMPLETED", "FAILED", "CANCELLED"}

VARIABLES
  scans,       \* the scans table: scan id -> row, or NoRow
  findings,    \* the findings table: scan id -> number of finding rows
  jobs,        \* the workload manager: the <<namespace, name>> of each job
  artifacts,   \* the blob service: ids of the artifacts it holds
  now,         \* the wall clock
  dq,          \* dispatcher: scans listed by this tick, not yet dispatched
  sq,          \* sweeper: scans listed by this tick, not yet processed
  cq,          \* cleaner: scans listed by this cycle, not yet cleaned
  cstats,      \* cleaner: successCount and failureCount of this cycle
  cancelReq,   \* CancelScan between its read and its write: the row read
  findReq,     \* CreateFindings calls between their read and their write:
               \* how many there are of each batch
  sq2,         \* sq of a second replica of the sweeper
  cq2,         \* cq of a second replica of the cleaner
  cstats2,     \* cstats of a second replica of the cleaner
  served,      \* number of requests the API has served
  impl,        \* which of the variants found in the source is built
  uuid,        \* the text of each scan id, as uuid.New() generated it
  sched,       \* Cleaner.Start: its clock and the next cleanup time
  loops,       \* the Start loop of each worker: where it is, its channels
  last         \* the step taken last: operation, result, calls made

vars ==
  <<scans, findings, jobs, artifacts, now, dq, sq, cq, cstats, cancelReq,
    findReq, sq2, cq2, cstats2, served, impl, uuid, sched, loops, last>>

(***************************************************************************)
(* domain.Scan                                                             *)
(***************************************************************************)
IsTerminal(s) ==
  \/ s.status = ScanStatusCompleted
  \/ s.status = ScanStatusFailed
  \/ s.status = ScanStatusCancelled

Exists(tbl, id) == tbl[id] # NoRow

(***************************************************************************)
(* Conversions of the request API.                                         *)
(***************************************************************************)
convertScanStatusFromProto(st) ==
  CASE st = "QUEUED" -> ScanStatusQueued
    [] st = "RUNNING" -> ScanStatusRunning
    [] st = "COMPLETED" -> ScanStatusCompleted
    [] st = "FAILED" -> ScanStatusFailed
    [] st = "CANCELLED" -> ScanStatusCancelled
    [] OTHER -> ""

stringPtr(s) == IF s = "" THEN NoString ELSE <<s>>

(***************************************************************************)
(* A call made by a handler, with its outcome, as recorded in last.calls.  *)
(***************************************************************************)
Call(name, ok) == [ok |-> ok, call |-> name]

Step(op, id, code, calls) ==
  [id |-> id, op |-> op, code |-> code, calls |-> calls, msg |-> "",
   count |-> 0, req |-> <<>>, resp |-> <<>>]

(***************************************************************************)
(* ScanRepository                                                          *)
(***************************************************************************)
\* UPDATE scans SET status, job_name, findings_count, ..., started_at,
\* completed_at, error_message WHERE id: job_namespace is not in the list
Update(tbl, scan) ==
  [tbl EXCEPT ![scan.id] =
     [@ EXCEPT !.status = scan.status,
               !.job_name = scan.job_name,
               !.findings_count = scan.findings_count,
               !.critical_count = scan.critical_count,
               !.high_count = scan.high_count,
               !.medium_count = scan.medium_count,
               !.low_count = scan.low_count,
               !.started_at = scan.started_at,
               !.completed_at = scan.completed_at,
               !.error_message = scan.error_message]]

UpdateStatus(tbl, id, status) ==
  [tbl EXCEPT ![id] = [@ EXCEPT !.status = status]]

\* Delete removing the row
DeleteRow(tbl, id) == [tbl EXCEPT ![id] = NoRow]

\* "soft delete - updates status": the row stays, with status cancelled
Delete(tbl, id) ==
  [tbl EXCEPT ![id] = [@ EXCEPT !.status = ScanStatusCancelled]]

\* the WHERE clause List builds: organization_id, project_id and status are
\* applied, CreatedBefore is never read
NoFilter ==
  [status |-> "", organization_id |-> "", project_id |-> "",
   created_before |-> -1]

Matches(row, filter) ==
  /\ (filter.organization_id # ""
        => row.organization_id = filter.organization_id)
  /\ (filter.project_id # "" => row.project_id = filter.project_id)
  /\ (filter.status # "" => row.status = filter.status)

\* ORDER BY created_at DESC; rows with equal created_at come in any order
IsListOf(l, S, tbl) ==
  /\ Len(l) = Cardinality(S)
  /\ {l[i].id : i \in 1..Len(l)} = S
  /\ \A i \in 1..Len(l) : l[i] = tbl[l[i].id]
  /\ \A i, j \in 1..Len(l) : i < j => l[i].created_at >= l[j].created_at

SeqsUpTo(S, n) == UNION {[1..k -> S] : k \in 0..n}

List(tbl, filter) ==
  LET S == {id \in ScanIds : Exists(tbl, id) /\ Matches(tbl[id], filter)}
      rows == {tbl[id] : id \in S}
  IN  {l \in SeqsUpTo(rows, Cardinality(S)) : IsListOf(l, S, tbl)}

(***************************************************************************)
(* Workload manager (k8s.JobDispatcher) and blob service, as the core      *)
(* sees them through interfaces.JobDispatcher and interfaces.StorageClient.*)
(***************************************************************************)
\* CreateJob: jobName := "scan-" + first 8 characters of the scan id
Prefix8(id) == SubSeq(uuid[id], 1, 8)

JobNameOf(id) == <<"scan-", Prefix8(id)>>

\* GetByJobName: the rows QueryRow can return for WHERE job_name = $1, one
\* of them when there are several, "scan not found" when there is none
GetByJobName(tbl, jobName) ==
  {tbl[id] : id \in {i \in ScanIds : /\ Exists(tbl, i)
                                     /\ tbl[i].job_name = jobName}}

\* DeleteJob: a job that is not found counts as deleted
DeleteJob(js, namespace, name) == js \ {<<namespace, name>>}

\* DeleteArtifacts
DeleteArtifacts(as, ids) == as \ ids

\* the result of a failed GetJobStatus
JobStatusError == [failed |-> 0, err |-> TRUE, active |-> 0, succeeded |-> 0]

JobStatusValues ==
  {[failed |-> f, err |-> FALSE, active |-> a, succeeded |-> s] :
     a \in 0..1, s \in 0..1, f \in 0..1}

\* GetJobStatus looking the job up by its name in whatever namespace
GetJobStatusAnyNamespace(js, namespace, name) ==
  {JobStatusError} \cup
  (IF \E j \in js : j[2] = name THEN JobStatusValues ELSE {})

\* GetJobStatus: the job is looked up in the given namespace; the call fails
\* when it is not there, and may fail for any other reason
GetJobStatus(js, namespace, name) ==
  {JobStatusError} \cup
  (IF <<namespace, name>> \in js THEN JobStatusValues ELSE {})

(***************************************************************************)
(* Initial state: empty store, no job, the uploaded archives in the blob   *)
(* service, and one of the variants of the finding repository and of the   *)
(* cleaner that the source holds.                                          *)
(***************************************************************************)
NoStats == [success |-> 0, failure |-> 0]

\* Cleaner.Start not yet called.  clock is time.Now() in instants of the
\* clock's resolution, cleanupTime the configured time of day, nextCleanup
\* the local of Start, target the time the cycle run last was waiting for.
NoSchedule ==
  [at |-> "idle", clock |-> 0, cleanupTime |-> 0, nextCleanup |-> 0,
   target |-> -1]

\* the three loops main starts
Workers == {"dispatcher", "sweeper", "cleaner"}

\* a Start loop not yet started: at is where the loop is, left the scans of
\* the running tick not yet handled, due whether the ticker's channel holds
\* a tick, stop whether stopChan is closed, done whether ctx is cancelled
NoLoop ==
  [at |-> "idle", left |-> 0, due |-> FALSE, stop |-> FALSE, done |-> FALSE]

\* a CreateFindings request: n findings for scan id
FindingBatches == [id : ScanIds, n : 0..MaxFindingRows]

Init ==
  /\ scans = [id \in ScanIds |-> NoRow]
  /\ findings = [id \in ScanIds |-> 0]
  /\ jobs = {}
  /\ artifacts = ArtifactIds
  /\ now = 0
  /\ dq = <<>>
  /\ sq = <<>>
  /\ cq = <<>>
  /\ cstats = NoStats
  /\ cancelReq = NoReq
  /\ findReq = [b \in FindingBatches |-> 0]
  /\ sq2 = <<>>
  /\ cq2 = <<>>
  /\ cstats2 = NoStats
  /\ served = 0
  /\ impl \in [cleaner : {"final", "all"}, findingRepo : {"stub", "full"}]
  /\ uuid \in UuidAssignments
  /\ sched = NoSchedule
  /\ loops = [w \in Workers |-> NoLoop]
  /\ last = Step("init", 0, "OK", <<>>)

\* time passes
Tick ==
  /\ now < MaxTime
  /\ now' = now + 1
  /\ last' = Step("Tick", 0, "OK", <<>>)
  /\ UNCHANGED <<scans, findings, jobs, artifacts, dq, sq, cq, cstats,
                 cancelReq, served, impl, uuid, sched, loops, findReq,
                   sq2, cq2, cstats2>>

(***************************************************************************)
(* Request API: CreateScan                                                 *)
(***************************************************************************)
\* the number of fields of a request that CreateScan rejects
CreateScanDefects(req) ==
  (IF req.organization_id # "org1" THEN 1 ELSE 0)
  + (IF req.project_id = "" THEN 1 ELSE 0)
  + (IF Len(req.scan_types) = 0 THEN 1 ELSE 0)
  + (IF req.git_url = "" /\ req.source_artifact_id = "" THEN 1 ELSE 0)

\* the requests drawn: the valid ones, and those with one field to reject
CreateScanRequests ==
  {req \in [organization_id : {"", "not-a-uuid", "org1"},
            project_id : {""} \cup Projects,
            scan_types : {<<>>, <<"sast">>},
            git_url : {"", "https://x/y"},
            source_artifact_id : {""} \cup {a[1] : a \in ArtifactIds}] :
     CreateScanDefects(req) <= 1}

\* CreateScanCode without the check of the scan types
CreateScanCodeNoKinds(req) ==
  IF \/ req.organization_id = ""
     \/ req.project_id = ""
     \/ (req.git_url = "" /\ req.source_artifact_id = "")
     \/ req.organization_id = "not-a-uuid"
  THEN "InvalidArgument"
  ELSE "OK"

CreateScanCode(req) ==
  IF \/ req.organization_id = ""
     \/ req.project_id = ""
     \/ Len(req.scan_types) = 0
     \/ (req.git_url = "" /\ req.source_artifact_id = "")
     \/ req.organization_id = "not-a-uuid"
  THEN "InvalidArgument"
  ELSE "OK"

NewScan(id, req, t) ==
  [id |-> id,
   status |-> ScanStatusQueued,
   job_name |-> NoString,
   findings_count |-> 0,
   critical_count |-> 0,
   high_count |-> 0,
   medium_count |-> 0,
   low_count |-> 0,
   started_at |-> FALSE,
   completed_at |-> FALSE,
   error_message |-> "",
   organization_id |-> req.organization_id,
   project_id |-> req.project_id,
   created_at |-> t,
   scan_types |-> req.scan_types,
   source_archive_key |-> stringPtr(req.source_artifact_id),
   job_namespace |-> NoString]

\* uuid.New(): an id no row has; ids are interchangeable, the least is taken
UnusedIds == {id \in ScanIds : ~Exists(scans, id)}

NewId == CHOOSE id \in UnusedIds : \A o \in UnusedIds : id <= o

CreateScan ==
  \E req \in CreateScanRequests :
    /\ served < MaxApiCalls
    /\ served' = served + 1
    /\ IF CreateScanCode(req) # "OK"
       THEN /\ scans' = scans
            /\ last' = [Step("CreateScan", 0, CreateScanCode(req), <<>>)
                        EXCEPT !.req = req]
       ELSE \E storeOk \in BOOLEAN :
              /\ UnusedIds # {}
              /\ scans' = IF storeOk
                          THEN [scans EXCEPT
                                  ![NewId] = NewScan(NewId, req, now)]
                          ELSE scans
              /\ last' = [Step("CreateScan", NewId,
                               IF storeOk THEN "OK" ELSE "Internal",
                               <<Call("Create", storeOk)>>)
                          EXCEPT !.req = req]
    /\ UNCHANGED <<findings, jobs, artifacts, now, dq, sq, cq, cstats,
                   cancelReq, impl, uuid, sched, loops, findReq,
                   sq2, cq2, cstats2>>

\* the organizations that own scans
Organizations == {"org1", "org2"}

\* valid requests of the two organizations, alike in everything else
TenantScanRequests ==
  [organization_id : Organizations,
   project_id : Projects,
   scan_types : {<<"sast">>},
   git_url : {"https://x/y"},
   source_artifact_id : {""}]

\* CreateScan called by either organization
CreateTenantScan ==
  \E req \in TenantScanRequests :
    /\ served < MaxApiCalls
    /\ served' = served + 1
    /\ IF CreateScanCode(req) # "OK"
       THEN /\ scans' = scans
            /\ last' = [Step("CreateScan", 0, CreateScanCode(req), <<>>)
                        EXCEPT !.req = req]
       ELSE \E storeOk \in BOOLEAN :
              /\ UnusedIds # {}
              /\ scans' = IF storeOk
                          THEN [scans EXCEPT
                                  ![NewId] = NewScan(NewId, req, now)]
                          ELSE scans
              /\ last' = [Step("CreateScan", NewId,
                               IF storeOk THEN "OK" ELSE "Internal",
                               <<Call("Create", storeOk)>>)
                          EXCEPT !.req = req]
    /\ UNCHANGED <<findings, jobs, artifacts, now, dq, sq, cq, cstats,
                   cancelReq, impl, uuid, sched, loops, findReq,
                   sq2, cq2, cstats2>>

\* Request API: GetScan, the code it returns
GetScan(tbl, id) == IF Exists(tbl, id) THEN "OK" ELSE "NotFound"

convertScanStatusToProto(st) ==
  CASE st = ScanStatusQueued -> "QUEUED"
    [] st = ScanStatusRunning -> "RUNNING"
    [] st = ScanStatusCompleted -> "COMPLETED"
    [] st = ScanStatusFailed -> "FAILED"
    [] st = ScanStatusCancelled -> "CANCELLED"
    [] OTHER -> "UNSPECIFIED"

\* the scan as the responses carry it
convertScanToProto(scan) ==
  [id |-> scan.id,
   status |-> convertScanStatusToProto(scan.status),
   organization_id |-> scan.organization_id,
   project_id |-> scan.project_id,
   created_at |-> scan.created_at,
   total_findings |-> scan.findings_count]

\* a response: its code and the scans it carries
Response(code, protoScans) == [scans |-> protoScans, code |-> code]

\* the responses GetScan can give for an id: the scan that ScanRepository.Get
\* finds WHERE id = $1, or NotFound when Get fails
GetScanResponses(tbl, id) ==
  {Response("NotFound", <<>>)} \cup
  (IF Exists(tbl, id)
   THEN {Response("OK", <<convertScanToProto(tbl[id])>>)}
   ELSE {})

\* GetScan: the request has the id alone; caller is the organization of the
\* one who sends it, which the handler has no way to read
GetScanRead ==
  \E id \in ScanIds, caller \in Organizations :
    \E r \in GetScanResponses(scans, id) :
      /\ served < MaxApiCalls
      /\ served' = served + 1
      /\ last' = [Step("GetScan", id, r.code, <<Call("Get", r.code = "OK")>>)
                  EXCEPT !.req = [id |-> id, caller |-> caller],
                         !.resp = r]
      /\ UNCHANGED <<scans, findings, jobs, artifacts, now, dq, sq, cq,
                     cstats, cancelReq, impl, uuid, sched, loops, findReq, sq2, cq2, cstats2>>

(***************************************************************************)
(* Request API: ListScans                                                  *)
(***************************************************************************)
ListScansRequests ==
  [status : {"UNSPECIFIED", "QUEUED"},
   organization_id : {"", "not-a-uuid"} \cup Organizations,
   project_id : {""} \cup Projects]

\* the filter ListScans builds from a request it accepts
ListScansFilter(req) ==
  [NoFilter EXCEPT !.organization_id = req.organization_id,
                   !.project_id = req.project_id,
                   !.status = IF req.status = "UNSPECIFIED"
                              THEN ""
                              ELSE convertScanStatusFromProto(req.status)]

MapScans(l) == [i \in 1..Len(l) |-> convertScanToProto(l[i])]

ListScansResponses(tbl, req) ==
  IF req.organization_id = "not-a-uuid"
  THEN {Response("InvalidArgument", <<>>)}
  ELSE {Response("Internal", <<>>)} \cup
       {Response("OK", MapScans(l)) : l \in List(tbl, ListScansFilter(req))}

ListScans ==
  \E req \in ListScansRequests :
    \E r \in ListScansResponses(scans, req) :
      /\ served < MaxApiCalls
      /\ served' = served + 1
      /\ last' = [Step("ListScans", 0, r.code,
                       IF r.code = "InvalidArgument"
                       THEN <<>>
                       ELSE <<Call("List", r.code = "OK")>>)
                  EXCEPT !.req = req, !.resp = r, !.count = Len(r.scans)]
      /\ UNCHANGED <<scans, findings, jobs, artifacts, now, dq, sq, cq,
                     cstats, cancelReq, impl, uuid, sched, loops, findReq, sq2, cq2, cstats2>>

(***************************************************************************)
(* Request API: UpdateScan (called by the runner jobs)                     *)
(***************************************************************************)
ErrorMessages == {"", "runner error"}

\* the requests drawn: a status alone, counts or an error message alone or
\* together, completed with counts, failed with an error message
UpdateScanRequests ==
  {r \in [status : ProtoStatuses, error_message : ErrorMessages,
          total_findings : 0..MaxTotalFindings] :
     \/ r.total_findings = 0 /\ r.error_message = ""
     \/ r.status = "UNSPECIFIED"
     \/ r.status = "COMPLETED" /\ r.error_message = ""
     \/ r.status = "FAILED" /\ r.total_findings = 0}

UpdateScanApply(scan, req) ==
  [scan EXCEPT
     !.status = IF req.status # "UNSPECIFIED"
                THEN convertScanStatusFromProto(req.status)
                ELSE @,
     !.findings_count = IF req.total_findings > 0 THEN req.total_findings
                        ELSE @,
     !.error_message = IF req.error_message # "" THEN req.error_message
                       ELSE @]

UpdateScan ==
  \E id \in ScanIds :
    /\ served < MaxApiCalls
    /\ served' = served + 1
    /\ IF ~Exists(scans, id)
       THEN /\ scans' = scans
            /\ last' = Step("UpdateScan", id, "NotFound",
                            <<Call("Get", FALSE)>>)
       ELSE \/ /\ scans' = scans
               /\ last' = Step("UpdateScan", id, "Internal",
                               <<Call("Get", TRUE), Call("Update", FALSE)>>)
            \/ \E req \in UpdateScanRequests :
                 /\ scans' = Update(scans, UpdateScanApply(scans[id], req))
                 /\ last' = Step("UpdateScan", id, "OK",
                                 <<Call("Get", TRUE), Call("Update", TRUE)>>)
    /\ UNCHANGED <<findings, jobs, artifacts, now, dq, sq, cq, cstats,
                   cancelReq, impl, uuid, sched, loops, findReq,
                   sq2, cq2, cstats2>>

(***************************************************************************)
(* Request API: CancelScan.  CancelScanGet is the handler up to the status *)
(* checks; for a queued or running scan CancelScanWrite is the rest, which *)
(* reads the id and the job of the row that CancelScanGet read.            *)
(***************************************************************************)
\* CancelScanCode with the first status check on completed alone
CancelScanCodeCompletedOnly(scan) ==
  IF scan = NoRow THEN "NotFound"
  ELSE IF scan.status = ScanStatusCompleted THEN "FailedPrecondition"
  ELSE IF scan.status = ScanStatusCancelled THEN "OK"
  ELSE "pending"

\* CancelScanCode without the early return for a cancelled scan
CancelScanCodeNoEarlyReturn(scan) ==
  IF scan = NoRow THEN "NotFound"
  ELSE IF scan.status = ScanStatusCompleted \/ scan.status = ScanStatusFailed
  THEN "FailedPrecondition"
  ELSE "pending"

\* the result of CancelScan on the row it read, "pending" when it goes on
\* to cancel the job and write the status
CancelScanCode(scan) ==
  IF scan = NoRow THEN "NotFound"
  ELSE IF scan.status = ScanStatusCompleted \/ scan.status = ScanStatusFailed
  THEN "FailedPrecondition"
  ELSE IF scan.status = ScanStatusCancelled THEN "OK"
  ELSE "pending"

CancelScanMessage(scan) ==
  IF CancelScanCode(scan) = "FailedPrecondition"
  THEN "scan already completed"
  ELSE ""

CancelScanGet ==
  \E id \in ScanIds :
    /\ cancelReq = NoReq
    /\ served < MaxApiCalls
    /\ served' = served + 1
    /\ cancelReq' = IF CancelScanCode(scans[id]) = "pending"
                    THEN [id |-> id, job_name |-> scans[id].job_name,
                          job_namespace |-> scans[id].job_namespace]
                    ELSE NoReq
    /\ last' = [Step(IF CancelScanCode(scans[id]) = "pending"
                     THEN "CancelScanGet" ELSE "CancelScan",
                     id, CancelScanCode(scans[id]),
                     <<Call("Get", Exists(scans, id))>>)
                EXCEPT !.msg = CancelScanMessage(scans[id])]
    /\ UNCHANGED <<scans, findings, jobs, artifacts, now, dq, sq, cq, cstats,
                   impl, uuid, sched, loops, findReq,
                   sq2, cq2, cstats2>>

\* CancelScanCalls with the status written before the job is cancelled
CancelScanCallsWriteFirst(scan, cancelOk, storeOk) ==
  <<Call("UpdateStatus", storeOk)>>
  \o (IF scan.job_name # NoString THEN <<Call("CancelJob", cancelOk)>>
      ELSE <<>>)

\* the calls of CancelScan after its status checks, on the row it read
CancelScanCalls(scan, cancelOk, storeOk) ==
  (IF scan.job_name # NoString THEN <<Call("CancelJob", cancelOk)>>
   ELSE <<>>)
  \o <<Call("UpdateStatus", storeOk)>>

CancelScanWrite ==
  \E cancelOk \in BOOLEAN, storeOk \in BOOLEAN :
    /\ cancelReq # NoReq
    /\ scans' = IF storeOk
                THEN UpdateStatus(scans, cancelReq.id, ScanStatusCancelled)
                ELSE scans
    /\ last' = Step("CancelScan", cancelReq.id,
                    IF storeOk THEN "OK" ELSE "Internal",
                    CancelScanCalls(cancelReq, cancelOk, storeOk))
    /\ cancelReq' = NoReq
    /\ UNCHANGED <<findings, jobs, artifacts, now, dq, sq, cq, cstats, served,
                   impl, uuid, sched, loops, findReq,
                   sq2, cq2, cstats2>>

(***************************************************************************)
(* FindingRepository.  The source holds two variants: one whose            *)
(* CreateBatch and DeleteByScanID are stubs that return nil, and one that  *)
(* runs the INSERT and the DELETE.                                         *)
(***************************************************************************)
CreateBatch(tbl, id, n) ==
  IF impl.findingRepo = "full" THEN [tbl EXCEPT ![id] = @ + n] ELSE tbl

DeleteByScanID(tbl, id) ==
  IF impl.findingRepo = "full" THEN [tbl EXCEPT ![id] = 0] ELSE tbl

\* the outcomes CreateBatch can have for n findings: the stub returns nil,
\* the INSERT is not run for an empty batch
CreateBatchOutcomes(n) ==
  IF impl.findingRepo = "full" /\ n > 0 THEN BOOLEAN ELSE {TRUE}

\* the number of CreateFindings calls between their read and their write
RECURSIVE InFlight(_)
InFlight(B) ==
  IF B = {} THEN 0
  ELSE LET b == CHOOSE x \in B : TRUE
       IN  findReq[b] + InFlight(B \ {b})

\* Request API: CreateFindings (called by the runner jobs).
\* CreateFindingsGet is the handler up to the check that the scan exists,
\* CreateFindingsWrite is the rest: the batch insert and the answer.
CreateFindingsGet ==
  \E b \in FindingBatches :
    /\ served < MaxApiCalls
    /\ served' = served + 1
    /\ InFlight(FindingBatches) < MaxInFlight
    /\ IF ~Exists(scans, b.id)
       THEN /\ findReq' = findReq
            /\ last' = [Step("CreateFindings", b.id, "NotFound",
                             <<Call("Get", FALSE)>>)
                        EXCEPT !.req = b]
       ELSE /\ findReq' = [findReq EXCEPT ![b] = @ + 1]
            /\ last' = [Step("CreateFindingsGet", b.id, "pending",
                             <<Call("Get", TRUE)>>)
                        EXCEPT !.req = b]
    /\ UNCHANGED <<scans, findings, jobs, artifacts, now, dq, sq, cq, cstats,
                   cancelReq, impl, uuid, sched, loops,
                   sq2, cq2, cstats2>>

CreateFindingsWrite ==
  \E b \in FindingBatches :
    /\ findReq[b] > 0
    /\ findings[b.id] + b.n <= MaxFindingRows
    /\ findReq' = [findReq EXCEPT ![b] = @ - 1]
    /\ \E storeOk \in CreateBatchOutcomes(b.n) :
         /\ findings' = IF storeOk THEN CreateBatch(findings, b.id, b.n)
                         ELSE findings
         /\ last' = [Step("CreateFindings", b.id,
                          IF storeOk THEN "OK" ELSE "Internal",
                          <<Call("CreateBatch", storeOk)>>)
                     EXCEPT !.count = IF storeOk THEN b.n ELSE 0,
                            !.req = b]
    /\ UNCHANGED <<scans, jobs, artifacts, now, dq, sq, cq, cstats,
                   cancelReq, served, impl, uuid, sched, loops,
                   sq2, cq2, cstats2>>

(***************************************************************************)
(* Request API: DeleteScan.  The outcome of each of its four calls is an   *)
(* input: o.job, o.art, o.find, o.row say whether the call succeeds.       *)
(***************************************************************************)
Outcomes == [row : BOOLEAN, job : BOOLEAN, art : BOOLEAN, find : BOOLEAN]

\* the outcomes of the calls that the teardown of `scan` makes; the outcome
\* of a call that is not made is fixed to TRUE
OutcomesFor(scan) ==
  {o \in Outcomes : /\ scan.job_name = NoString => o.job
                    /\ scan.source_archive_key = NoString => o.art
                    /\ ~o.find => o.row}

\* the state the teardown of one scan works on and leaves
Store(sc, fi, jo, ar) ==
  [scans |-> sc, findings |-> fi, jobs |-> jo, artifacts |-> ar]

CurrentStore == Store(scans, findings, jobs, artifacts)

DeleteScanCalls(scan, o) ==
  (IF scan.job_name # NoString THEN <<Call("DeleteJob", o.job)>> ELSE <<>>)
  \o (IF scan.source_archive_key # NoString
      THEN <<Call("DeleteArtifacts", o.art)>> ELSE <<>>)
  \o <<Call("DeleteByScanID", o.find)>>
  \o (IF o.find THEN <<Call("Delete", o.row)>> ELSE <<>>)

DeleteScanCode(o) == IF o.find /\ o.row THEN "OK" ELSE "Internal"

\* the store after DeleteScan has run on the row `scan` with outcomes o;
\* the job is deleted in stringValue(scan.JobNamespace)
DeleteScanEffect(st, scan, o) ==
  Store(IF o.find /\ o.row THEN Delete(st.scans, scan.id) ELSE st.scans,
        IF o.find THEN DeleteByScanID(st.findings, scan.id) ELSE st.findings,
        IF scan.job_name # NoString /\ o.job
        THEN DeleteJob(st.jobs, scan.job_namespace, scan.job_name)
        ELSE st.jobs,
        IF scan.source_archive_key # NoString /\ o.art
        THEN DeleteArtifacts(st.artifacts, {scan.source_archive_key})
        ELSE st.artifacts)

DeleteScan ==
  \E id \in ScanIds :
    /\ served < MaxApiCalls
    /\ served' = served + 1
    /\ IF ~Exists(scans, id)
       THEN /\ UNCHANGED <<scans, findings, jobs, artifacts>>
            /\ last' = Step("DeleteScan", id, "NotFound",
                            <<Call("Get", FALSE)>>)
       ELSE \E o \in OutcomesFor(scans[id]) :
            LET st == DeleteScanEffect(CurrentStore, scans[id], o)
            IN  /\ scans' = st.scans
                /\ findings' = st.findings
                /\ jobs' = st.jobs
                /\ artifacts' = st.artifacts
                /\ last' = Step("DeleteScan", id, DeleteScanCode(o),
                                <<Call("Get", TRUE)>>
                                  \o DeleteScanCalls(scans[id], o))
    /\ UNCHANGED <<now, dq, sq, cq, cstats, cancelReq, impl, uuid, sched, loops, findReq,
                   sq2, cq2, cstats2>>

(***************************************************************************)
(* Request API: DeleteProjectScans: List by project, then DeleteScan for   *)
(* each listed scan in turn, counting the calls that succeed.              *)
(***************************************************************************)
RECURSIVE DeleteEach(_, _, _)
\* the results [store, deleted, calls] of running DeleteScan on the ids of
\* l, in order, from store st with `deleted` successes so far
DeleteEach(l, st, deleted) ==
  IF l = <<>>
  THEN {[calls |-> <<>>, deleted |-> deleted, store |-> st]}
  ELSE LET id == Head(l).id
       IN  UNION
             {{[r EXCEPT !.calls =
                   <<Call("DeleteScan", DeleteScanCode(o) = "OK")>> \o @] :
                 r \in DeleteEach(Tail(l),
                                  DeleteScanEffect(st, st.scans[id], o),
                                  IF DeleteScanCode(o) = "OK"
                                  THEN deleted + 1 ELSE deleted)} :
                o \in OutcomesFor(st.scans[id])}

DeleteProjectScans ==
  \E p \in Projects, listOk \in BOOLEAN :
    /\ served < MaxApiCalls
    /\ served' = served + 1
    /\ IF ~listOk
       THEN /\ UNCHANGED <<scans, findings, jobs, artifacts>>
            /\ last' = [Step("DeleteProjectScans", 0, "Internal",
                             <<Call("List", FALSE)>>)
                        EXCEPT !.req = [project_id |-> p]]
       ELSE \E l \in List(scans, [NoFilter EXCEPT !.project_id = p]) :
              \E r \in DeleteEach(l, CurrentStore, 0) :
                /\ scans' = r.store.scans
                /\ findings' = r.store.findings
                /\ jobs' = r.store.jobs
                /\ artifacts' = r.store.artifacts
                /\ last' = [Step("DeleteProjectScans", 0, "OK",
                                 <<Call("List", TRUE)>> \o r.calls)
                            EXCEPT !.count = r.deleted,
                                   !.req = [project_id |-> p]]
    /\ UNCHANGED <<now, dq, sq, cq, cstats, cancelReq, impl, uuid, sched, loops, findReq,
                   sq2, cq2, cstats2>>

(***************************************************************************)
(* The workers walk the list of a tick with `for _, scan := range scans`:  *)
(* restOfTick is what is left of the list q after the step on its first    *)
(* scan, whatever the calls of that step returned.                         *)
(***************************************************************************)
\* a loop that ends the tick at the first scan with a failed call
restOfTickStopOnError(q, step) ==
  IF \E i \in 1..Len(step.calls) : ~step.calls[i].ok
  THEN <<>>
  ELSE Tail(q)

restOfTick(q, step) == Tail(q)

(***************************************************************************)
(* Dispatcher: dispatch lists the queued scans, dispatchScan handles the   *)
(* next listed scan.  A tick ends before the next begins.                  *)
(***************************************************************************)
dispatch ==
  \E listOk \in BOOLEAN :
    /\ dq = <<>>
    /\ IF listOk
       THEN \E l \in List(scans, [NoFilter EXCEPT !.status = ScanStatusQueued]) :
              dq' = l
       ELSE dq' = <<>>
    /\ last' = Step("dispatch", 0, IF listOk THEN "OK" ELSE "error",
                    <<Call("List", listOk)>>)
    /\ UNCHANGED <<scans, findings, jobs, artifacts, now, sq, cq, cstats,
                   cancelReq, served, impl, uuid, sched, loops, findReq,
                   sq2, cq2, cstats2>>

\* k8s JobDispatcher.CreateJob: o.art is the outcome of GetArtifact, o.job
\* of the Jobs(namespace).Create request, which also fails when a job of
\* that name exists.  The result is the error text, or "" on success.
CreateJobError(js, scan, o) ==
  IF scan.source_archive_key # NoString /\ ~o.art
  THEN "failed to get artifact download URL"
  ELSE IF ~o.job \/ <<ConfigNamespace, JobNameOf(scan.id)>> \in js
  THEN "failed to create job"
  ELSE ""

\* the outcomes of the calls dispatchScan makes for `scan`; the outcome of a
\* call that is not made is fixed to TRUE
CreateJobOutcomes(scan) ==
  {o \in [row : BOOLEAN, job : BOOLEAN, art : BOOLEAN] :
     /\ scan.source_archive_key = NoString => o.art
     /\ ~o.art => o.job}

CreateJobCalls(scan, o) ==
  (IF scan.source_archive_key # NoString
   THEN <<Call("GetArtifact", o.art)>> ELSE <<>>)
  \o (IF scan.source_archive_key # NoString /\ ~o.art THEN <<>>
      ELSE <<Call("Create", o.job)>>)

\* what a successful GetArtifact can return as resp.DownloadUrl
DownloadUrls == {"", "https://blob/art-123?sig"}

\* the download URL CreateJob goes on with: "" when GetArtifact is not called
ArtifactUrls(scan, o) ==
  IF scan.source_archive_key # NoString /\ o.art THEN DownloadUrls ELSE {""}

\* buildJobSpec leaving the download URL out
buildJobSpecNoDownloadUrl(jobName, scan, downloadURL) ==
  [name |-> jobName,
   namespace |-> ConfigNamespace,
   env |-> {<<"SCAN_ID", scan.id>>,
            <<"ORGANIZATION_ID", scan.organization_id>>,
            <<"PROJECT_ID", scan.project_id>>,
            <<"SOURCE_ARTIFACT_ID", scan.source_archive_key>>}]

\* the job CreateJob asks the cluster to create, with the environment of
\* its runner as a set of <<name, value>>
buildJobSpec(jobName, scan, downloadURL) ==
  [name |-> jobName,
   namespace |-> ConfigNamespace,
   env |-> {<<"SCAN_ID", scan.id>>,
            <<"ORGANIZATION_ID", scan.organization_id>>,
            <<"PROJECT_ID", scan.project_id>>,
            <<"SOURCE_ARTIFACT_ID", scan.source_archive_key>>}
           \cup (IF downloadURL # ""
                 THEN {<<"SOURCE_DOWNLOAD_URL", downloadURL>>}
                 ELSE {})]

\* dispatchScanResult with a failure branch that sets the status alone
dispatchScanResultNoMessage(js, scan, o) ==
  IF CreateJobError(js, scan, o) # ""
  THEN [scan EXCEPT !.status = ScanStatusFailed]
  ELSE [scan EXCEPT !.job_name = JobNameOf(scan.id),
                    !.job_namespace = ConfigNamespace,
                    !.status = ScanStatusRunning,
                    !.started_at = TRUE]

\* the scan as dispatchScan passes it to Update
dispatchScanResult(js, scan, o) ==
  IF CreateJobError(js, scan, o) # ""
  THEN [scan EXCEPT !.status = ScanStatusFailed,
                    !.error_message = CreateJobError(js, scan, o)]
  ELSE [scan EXCEPT !.job_name = JobNameOf(scan.id),
                    !.job_namespace = ConfigNamespace,
                    !.status = ScanStatusRunning,
                    !.started_at = TRUE]

dispatchScan ==
  /\ dq # <<>>
  /\ \E o \in CreateJobOutcomes(Head(dq)) :
     \E url \in ArtifactUrls(Head(dq), o) :
       /\ jobs' = IF CreateJobError(jobs, Head(dq), o) = ""
                  THEN jobs \cup {<<ConfigNamespace, JobNameOf(Head(dq).id)>>}
                  ELSE jobs
       /\ scans' = IF o.row
                   THEN Update(scans, dispatchScanResult(jobs, Head(dq), o))
                   ELSE scans
       /\ last' = [Step("dispatchScan", Head(dq).id,
                        IF o.row THEN "OK" ELSE "error",
                        CreateJobCalls(Head(dq), o)
                          \o <<Call("Update", o.row)>>)
                   EXCEPT !.msg = CreateJobError(jobs, Head(dq), o),
                          !.req = IF Head(dq).source_archive_key = NoString
                                     \/ o.art
                                  THEN buildJobSpec(JobNameOf(Head(dq).id),
                                                    Head(dq), url)
                                  ELSE <<>>,
                          !.resp = IF Head(dq).source_archive_key # NoString
                                      /\ o.art
                                   THEN <<url>>
                                   ELSE <<>>]
  /\ dq' = restOfTick(dq, last')
  /\ UNCHANGED <<findings, artifacts, now, sq, cq, cstats, cancelReq,
                 served, impl, uuid, sched, loops, findReq,
                   sq2, cq2, cstats2>>

(***************************************************************************)
(* Sweeper: sweep lists the queued and the running scans, processScan      *)
(* handles the next listed scan.                                           *)
(***************************************************************************)
sweep ==
  \E queuedOk \in BOOLEAN, runningOk \in BOOLEAN :
    /\ sq = <<>>
    /\ IF queuedOk /\ runningOk
       THEN \E lq \in List(scans, [NoFilter EXCEPT !.status = ScanStatusQueued]),
               lr \in List(scans, [NoFilter EXCEPT !.status = ScanStatusRunning]) :
              sq' = lq \o lr
       ELSE sq' = <<>>
    /\ last' = Step("sweep", 0,
                    IF queuedOk /\ runningOk THEN "OK" ELSE "error",
                    IF queuedOk
                    THEN <<Call("List", TRUE), Call("List", runningOk)>>
                    ELSE <<Call("List", FALSE)>>)
    /\ UNCHANGED <<scans, findings, jobs, artifacts, now, dq, cq, cstats,
                   cancelReq, served, impl, uuid, sched, loops, findReq,
                   sq2, cq2, cstats2>>

(***************************************************************************)
(* The error message of a failed job.  A text is a sequence of characters, *)
(* a character an integer: the texts of the conditions are single named    *)
(* characters, a log of n characters is <<1, ..., n>>.                     *)
(***************************************************************************)
MaxConditions == 2

Dot == 0

MessageText == <<-1>>

ReasonText == <<-2>>

\* "Job failed with unknown error"
DefaultErrorMessage == <<-3>>

\* the last characters of the log that processScan keeps
LogTail == 500

\* the size of the buffer GetJobLogs reads the log into
LogBuffer == 2000

Log(n) == [i \in 1..n |-> i]

\* interfaces.JobCondition as GetJobStatus copies it from the job
JobConditions ==
  [status : {"True", "False"}, type : {"Complete", "Failed"},
   message : {<<>>, MessageText}, reason : {<<>>, ReasonText}]

\* what GetJobLogs can return: an error, or the first bytes of the log
JobLogs ==
  {[err |-> TRUE, logs |-> <<>>]} \cup
  {[err |-> FALSE, logs |-> Log(n)] :
     n \in {0, 1, LogTail, LogTail + 1, LogBuffer}}

\* IsFailedCondition without the look at the status of the condition
IsFailedConditionAnyStatus(cond) == cond.type = "Failed"

\* the conditions that count as a failure
IsFailedCondition(cond) == cond.type = "Failed" /\ cond.status = "True"

\* the condition the loop over jobStatus.Conditions breaks at
FirstFailed(conds) ==
  LET I == {i \in 1..Len(conds) : IsFailedCondition(conds[i])}
  IN  IF I = {} THEN 0 ELSE CHOOSE i \in I : \A j \in I : i <= j

\* the message taken from a condition
ConditionMessage(cond) ==
  IF cond.message = <<>> THEN cond.reason ELSE cond.message

\* the message taken from the result of GetJobLogs
LogMessage(r) ==
  IF ~r.err /\ r.logs # <<>>
  THEN (IF Len(r.logs) > LogTail
        THEN <<Dot, Dot, Dot>>
               \o SubSeq(r.logs, Len(r.logs) - LogTail + 1, Len(r.logs))
        ELSE r.logs)
  ELSE DefaultErrorMessage

\* processScan, the branch jobStatus.Failed > 0: the error message it sets
\* from the conditions of the job and, without failed condition, from the
\* answer r of GetJobLogs; the conditions, the calls and r are kept in last
processScanFailed ==
  \E conds \in SeqsUpTo(JobConditions, MaxConditions), r \in JobLogs :
    /\ FirstFailed(conds) # 0 => r = [err |-> TRUE, logs |-> <<>>]
    /\ last' = [Step("processScanFailed", 0, "OK",
                     IF FirstFailed(conds) # 0
                     THEN <<>>
                     ELSE <<Call("GetJobLogs", ~r.err)>>)
                EXCEPT !.req = conds,
                       !.resp = IF FirstFailed(conds) # 0 THEN <<>> ELSE r,
                       !.msg = IF FirstFailed(conds) # 0
                               THEN ConditionMessage(conds[FirstFailed(conds)])
                               ELSE LogMessage(r)]
    /\ UNCHANGED <<scans, findings, jobs, artifacts, now, dq, sq, cq, cstats,
                   cancelReq, served, impl, uuid, sched, loops, findReq, sq2, cq2, cstats2>>

\* what the job conditions and the job log give as error message
SweepErrorMessages ==
  {"OOMKilled", "BackoffLimitExceeded", "log tail",
   "Job failed with unknown error"}

\* processScanStatus looking at the failed pods before the succeeded ones
processScanStatusFailedFirst(scan, js) ==
  IF js.failed > 0 THEN ScanStatusFailed
  ELSE IF js.succeeded > 0 THEN ScanStatusCompleted
  ELSE IF js.active > 0
  THEN (IF scan.status # ScanStatusRunning THEN ScanStatusRunning ELSE "")
  ELSE ""

\* processScanStatus taking a job without pods for a failed one
processScanStatusNoPodsFailed(scan, js) ==
  IF js.succeeded > 0 THEN ScanStatusCompleted
  ELSE IF js.failed > 0 THEN ScanStatusFailed
  ELSE IF js.active > 0
  THEN (IF scan.status # ScanStatusRunning THEN ScanStatusRunning ELSE "")
  ELSE ScanStatusFailed

\* the status processScan derives from the job status, "" for no update
processScanStatus(scan, js) ==
  IF js.succeeded > 0 THEN ScanStatusCompleted
  ELSE IF js.failed > 0 THEN ScanStatusFailed
  ELSE IF js.active > 0
  THEN (IF scan.status # ScanStatusRunning THEN ScanStatusRunning ELSE "")
  ELSE ""

\* the scan as processScan passes it to Update
processScanResult(scan, js, msg) ==
  LET newStatus == processScanStatus(scan, js)
  IN  [scan EXCEPT
         !.status = newStatus,
         !.error_message = IF newStatus = ScanStatusFailed THEN msg ELSE @,
         !.completed_at =
            IF newStatus \in {ScanStatusCompleted, ScanStatusFailed}
            THEN TRUE ELSE @]

\* the job processScan asks the status of
JobQuery(scan) == [name |-> scan.job_name, namespace |-> scan.job_namespace]

processScan ==
  /\ sq # <<>>
  /\ IF Head(sq).job_name = NoString
     THEN /\ scans' = scans
          /\ last' = Step("processScan", Head(sq).id, "skipped", <<>>)
     ELSE \E js \in GetJobStatus(jobs, Head(sq).job_namespace,
                                 Head(sq).job_name),
             msg \in SweepErrorMessages, storeOk \in BOOLEAN :
            IF js.err \/ processScanStatus(Head(sq), js) = ""
            THEN /\ scans' = scans
                 /\ last' = [Step("processScan", Head(sq).id, "unchanged",
                                  <<Call("GetJobStatus", ~js.err)>>)
                             EXCEPT !.req = JobQuery(Head(sq))]
            ELSE /\ scans' = IF storeOk
                             THEN Update(scans,
                                         processScanResult(Head(sq), js, msg))
                             ELSE scans
                 /\ last' = [Step("processScan", Head(sq).id,
                                  IF storeOk THEN "OK" ELSE "error",
                                  <<Call("GetJobStatus", TRUE),
                                    Call("Update", storeOk)>>)
                             EXCEPT !.req = JobQuery(Head(sq))]
  /\ sq' = restOfTick(sq, last')
  /\ UNCHANGED <<findings, jobs, artifacts, now, dq, cq, cstats, cancelReq,
                 served, impl, uuid, sched, loops, findReq,
                   sq2, cq2, cstats2>>

\* the answers interfaces.JobDispatcher.GetJobStatus can give
JobStatusAnswers == {JobStatusError} \cup JobStatusValues

\* processScan with a workload manager that answers the query by name: the
\* answer js is kept in last.resp and the error message read from the job
\* in last.msg
processScanGiven ==
  /\ sq # <<>>
  /\ IF Head(sq).job_name = NoString
     THEN /\ scans' = scans
          /\ last' = Step("processScanGiven", Head(sq).id, "skipped", <<>>)
     ELSE \E js \in JobStatusAnswers,
             msg \in SweepErrorMessages, storeOk \in BOOLEAN :
            IF js.err \/ processScanStatus(Head(sq), js) = ""
            THEN /\ scans' = scans
                 /\ last' = [Step("processScanGiven", Head(sq).id,
                                  "unchanged",
                                  <<Call("GetJobStatus", ~js.err)>>)
                             EXCEPT !.req = JobQuery(Head(sq)),
                                    !.resp = js]
            ELSE /\ scans' = IF storeOk
                             THEN Update(scans,
                                         processScanResult(Head(sq), js, msg))
                             ELSE scans
                 /\ last' = [Step("processScanGiven", Head(sq).id,
                                  IF storeOk THEN "OK" ELSE "error",
                                  <<Call("GetJobStatus", TRUE),
                                    Call("Update", storeOk)>>)
                             EXCEPT !.req = JobQuery(Head(sq)),
                                    !.resp = js,
                                    !.msg = msg]
  /\ sq' = restOfTick(sq, last')
  /\ UNCHANGED <<findings, jobs, artifacts, now, dq, cq, cstats, cancelReq,
                 served, impl, uuid, sched, loops, findReq,
                   sq2, cq2, cstats2>>

(***************************************************************************)
(* Cleaner: cleanup computes the cutoff and lists the scans to clean,      *)
(* cleanupScan tears down the next listed scan.  The source holds two      *)
(* variants of cleanup: "final" lists once per final status, "all" lists   *)
(* once with the cutoff alone.                                             *)
(***************************************************************************)
finalStatuses ==
  <<ScanStatusCompleted, ScanStatusFailed, ScanStatusCancelled>>

cutoffDate == now - RetentionDays

cleanupFilter(status) ==
  [NoFilter EXCEPT !.created_before = cutoffDate, !.status = status]

\* the lists cleanup can get for the final statuses i..3, appended in that
\* order; a List that fails is skipped
RECURSIVE allScansToClean(_)
allScansToClean(i) ==
  IF i > Len(finalStatuses) THEN {<<>>}
  ELSE {l \o rest :
          l \in {<<>>} \cup List(scans, cleanupFilter(finalStatuses[i])),
          rest \in allScansToClean(i + 1)}

\* the scans cleanup can get from the store
cleanupList ==
  IF impl.cleaner = "final" THEN allScansToClean(1)
  ELSE {<<>>} \cup List(scans, cleanupFilter(""))

\* the fields of a listed scan that cleanupScan reads, with the status and
\* the creation time it was listed with
CleanItem(scan) ==
  [id |-> scan.id, status |-> scan.status, job_name |-> scan.job_name,
   created_at |-> scan.created_at, source_archive_key |-> scan.source_archive_key,
   job_namespace |-> scan.job_namespace]

cleanup ==
  /\ cq = <<>>
  /\ \E l \in cleanupList :
       cq' = [i \in 1..Len(l) |-> CleanItem(l[i])]
  /\ cstats' = NoStats
  /\ last' = Step("cleanup", 0, "OK", <<Call("List", TRUE)>>)
  /\ UNCHANGED <<scans, findings, jobs, artifacts, now, dq, sq, cancelReq,
                 served, impl, uuid, sched, loops, findReq,
                   sq2, cq2, cstats2>>

\* the namespace cleanupScan deletes the job in
cleanupNamespace(scan) ==
  IF impl.cleaner = "final" /\ scan.job_namespace = NoString
  THEN ConfigNamespace
  ELSE scan.job_namespace

\* cleanupScanCalls with the scan row deleted before the findings
cleanupScanCallsRowFirst(scan, o) ==
  (IF scan.job_name # NoString THEN <<Call("DeleteJob", o.job)>> ELSE <<>>)
  \o (IF scan.source_archive_key # NoString
      THEN <<Call("DeleteArtifacts", o.art)>> ELSE <<>>)
  \o <<Call("Delete", o.row)>>
  \o (IF o.row THEN <<Call("DeleteByScanID", o.find)>> ELSE <<>>)

cleanupScanCalls(scan, o) ==
  (IF scan.job_name # NoString THEN <<Call("DeleteJob", o.job)>> ELSE <<>>)
  \o (IF scan.source_archive_key # NoString
      THEN <<Call("DeleteArtifacts", o.art)>> ELSE <<>>)
  \o <<Call("DeleteByScanID", o.find)>>
  \o (IF o.find THEN <<Call("Delete", o.row)>> ELSE <<>>)

\* cleanupScanOk with the error of the job delete returned
cleanupScanOkJobToo(o) == o.job /\ o.find /\ o.row

\* cleanupScan returns nil
cleanupScanOk(o) == o.find /\ o.row

\* the store after cleanupScan has run on the listed scan with outcomes o
cleanupScanEffect(st, scan, o) ==
  Store(IF o.find /\ o.row THEN Delete(st.scans, scan.id) ELSE st.scans,
        IF o.find THEN DeleteByScanID(st.findings, scan.id) ELSE st.findings,
        IF scan.job_name # NoString /\ o.job
        THEN DeleteJob(st.jobs, cleanupNamespace(scan), scan.job_name)
        ELSE st.jobs,
        IF scan.source_archive_key # NoString /\ o.art
        THEN DeleteArtifacts(st.artifacts, {scan.source_archive_key})
        ELSE st.artifacts)

\* successCount++ or failureCount++
cleanupCount(stats, ok) ==
  IF ok THEN [stats EXCEPT !.success = @ + 1]
  ELSE [stats EXCEPT !.failure = @ + 1]

cleanupScan ==
  /\ cq # <<>>
  /\ \E o \in OutcomesFor(Head(cq)) :
       LET st == cleanupScanEffect(CurrentStore, Head(cq), o)
       IN  /\ scans' = st.scans
           /\ findings' = st.findings
           /\ jobs' = st.jobs
           /\ artifacts' = st.artifacts
           /\ cstats' = cleanupCount(cstats, cleanupScanOk(o))
           /\ last' = Step("cleanupScan", Head(cq).id,
                           IF cleanupScanOk(o) THEN "OK" ELSE "error",
                           cleanupScanCalls(Head(cq), o))
  /\ cq' = restOfTick(cq, last')
  /\ UNCHANGED <<now, dq, sq, cancelReq, served, impl, uuid, sched, loops, findReq,
                   sq2, cq2, cstats2>>

(***************************************************************************)
(* A second replica of the service runs its own sweeper and cleaner on the *)
(* same store, workload manager and blob service: sweep2, processScan2,    *)
(* cleanup2 and cleanupScan2 are sweep, processScan, cleanup and           *)
(* cleanupScan on the second replica's lists.                              *)
(***************************************************************************)
sweep2 ==
  \E queuedOk \in BOOLEAN, runningOk \in BOOLEAN :
    /\ sq2 = <<>>
    /\ IF queuedOk /\ runningOk
       THEN \E lq \in List(scans, [NoFilter EXCEPT !.status = ScanStatusQueued]),
               lr \in List(scans, [NoFilter EXCEPT !.status = ScanStatusRunning]) :
              sq2' = lq \o lr
       ELSE sq2' = <<>>
    /\ last' = Step("sweep2", 0,
                    IF queuedOk /\ runningOk THEN "OK" ELSE "error",
                    IF queuedOk
                    THEN <<Call("List", TRUE), Call("List", runningOk)>>
                    ELSE <<Call("List", FALSE)>>)
    /\ UNCHANGED <<scans, findings, jobs, artifacts, now, dq, sq, cq, cstats,
                   cancelReq, served, impl, uuid, sched, loops, findReq, cq2, cstats2>>

processScan2 ==
  /\ sq2 # <<>>
  /\ IF Head(sq2).job_name = NoString
     THEN /\ scans' = scans
          /\ last' = Step("processScan2", Head(sq2).id, "skipped", <<>>)
     ELSE \E js \in GetJobStatus(jobs, Head(sq2).job_namespace,
                                 Head(sq2).job_name),
             msg \in SweepErrorMessages, storeOk \in BOOLEAN :
            IF js.err \/ processScanStatus(Head(sq2), js) = ""
            THEN /\ scans' = scans
                 /\ last' = [Step("processScan2", Head(sq2).id, "unchanged",
                                  <<Call("GetJobStatus", ~js.err)>>)
                             EXCEPT !.req = JobQuery(Head(sq2))]
            ELSE /\ scans' = IF storeOk
                             THEN Update(scans,
                                         processScanResult(Head(sq2), js, msg))
                             ELSE scans
                 /\ last' = [Step("processScan2", Head(sq2).id,
                                  IF storeOk THEN "OK" ELSE "error",
                                  <<Call("GetJobStatus", TRUE),
                                    Call("Update", storeOk)>>)
                             EXCEPT !.req = JobQuery(Head(sq2))]
  /\ sq2' = restOfTick(sq2, last')
  /\ UNCHANGED <<findings, jobs, artifacts, now, dq, sq, cq, cstats, cancelReq,
                 served, impl, uuid, sched, loops, findReq, cq2, cstats2>>

cleanup2 ==
  /\ cq2 = <<>>
  /\ \E l \in cleanupList :
       cq2' = [i \in 1..Len(l) |-> CleanItem(l[i])]
  /\ cstats2' = NoStats
  /\ last' = Step("cleanup2", 0, "OK", <<Call("List", TRUE)>>)
  /\ UNCHANGED <<scans, findings, jobs, artifacts, now, dq, sq, cq, cstats, cancelReq,
                 served, impl, uuid, sched, loops, findReq, sq2>>

cleanupScan2 ==
  /\ cq2 # <<>>
  /\ \E o \in OutcomesFor(Head(cq2)) :
       LET st == cleanupScanEffect(CurrentStore, Head(cq2), o)
       IN  /\ scans' = st.scans
           /\ findings' = st.findings
           /\ jobs' = st.jobs
           /\ artifacts' = st.artifacts
           /\ cstats2' = cleanupCount(cstats2, cleanupScanOk(o))
           /\ last' = Step("cleanupScan2", Head(cq2).id,
                           IF cleanupScanOk(o) THEN "OK" ELSE "error",
                           cleanupScanCalls(Head(cq2), o))
  /\ cq2' = restOfTick(cq2, last')
  /\ UNCHANGED <<now, dq, sq, cq, cstats, cancelReq, served, impl, uuid, sched, loops, findReq, sq2>>

(***************************************************************************)
(* Cleaner.Start: the loop that waits for the next cleanup time, runs a    *)
(* cleanup cycle and computes the next cleanup time again.  The cycle      *)
(* itself is cleanup and cleanupScan above; here it is the clock instants  *)
(* that pass between cleanerTimer and cleanerRecompute.                    *)
(***************************************************************************)
\* calculateNextCleanup: today's occurrence of the cleanup time, or
\* tomorrow's if today's is before now
calculateNextCleanup(clock, cleanupTime) ==
  LET today == (clock \div DayLength) * DayLength + cleanupTime
  IN  IF today < clock THEN today + DayLength ELSE today

\* Start is called: the first next cleanup time
cleanerStart ==
  /\ sched.at = "idle"
  /\ \E clock \in 0..(DayLength - 1), cleanupTime \in 0..(DayLength - 1) :
       sched' = [sched EXCEPT
                   !.at = "wait",
                   !.clock = clock,
                   !.cleanupTime = cleanupTime,
                   !.nextCleanup = calculateNextCleanup(clock, cleanupTime)]
  /\ last' = Step("cleanerStart", 0, "OK", <<>>)
  /\ UNCHANGED <<scans, findings, jobs, artifacts, now, dq, sq, cq, cstats,
                 cancelReq, findReq, sq2, cq2, cstats2, served, impl, uuid,
                 loops>>

\* the cleaner's clock moves on by one instant
clockTick ==
  /\ sched.at # "idle"
  /\ sched.clock < MaxClock
  /\ sched' = [sched EXCEPT !.clock = @ + 1]
  /\ last' = Step("clockTick", 0, "OK", <<>>)
  /\ UNCHANGED <<scans, findings, jobs, artifacts, now, dq, sq, cq, cstats,
                 cancelReq, findReq, sq2, cq2, cstats2, served, impl, uuid,
                 loops>>

\* case <-time.After(time.Until(nextCleanup)): the cycle for nextCleanup
\* starts, at that time or later
cleanerTimer ==
  /\ sched.at = "wait"
  /\ sched.clock >= sched.nextCleanup
  /\ sched' = [sched EXCEPT !.at = "cleanup", !.target = sched.nextCleanup]
  /\ last' = Step("cleanerTimer", 0, "OK", <<>>)
  /\ UNCHANGED <<scans, findings, jobs, artifacts, now, dq, sq, cq, cstats,
                 cancelReq, findReq, sq2, cq2, cstats2, served, impl, uuid,
                 loops>>

\* the cycle has returned: nextCleanup = c.calculateNextCleanup()
cleanerRecompute ==
  /\ sched.at = "cleanup"
  /\ sched' = [sched EXCEPT
                 !.at = "wait",
                 !.nextCleanup =
                   calculateNextCleanup(sched.clock, sched.cleanupTime)]
  /\ last' = Step("cleanerRecompute", 0, "OK", <<>>)
  /\ UNCHANGED <<scans, findings, jobs, artifacts, now, dq, sq, cq, cstats,
                 cancelReq, findReq, sq2, cq2, cstats2, served, impl, uuid,
                 loops>>

(***************************************************************************)
(* Start and Stop of the dispatcher, the sweeper and the cleaner: the      *)
(* for-select loop of each.  A tick is dispatch, sweep or cleanup with the *)
(* per-scan steps that follow; here it is the number of scans it listed.   *)
(* last.req is the worker that took the step.                              *)
(***************************************************************************)
\* go w.Start(ctx): the dispatcher and the sweeper run a tick at once, the
\* cleaner waits for its time
loopStart ==
  /\ \E w \in Workers, n \in 0..MaxScans :
       /\ loops[w].at = "idle"
       /\ loops' = [loops EXCEPT
                      ![w].at = IF w = "cleaner" THEN "select" ELSE "tick",
                      ![w].left = IF w = "cleaner" THEN 0 ELSE n]
       /\ last' = [Step("loopStart", 0, "OK", <<>>) EXCEPT !.req = w]
  /\ UNCHANGED <<scans, findings, jobs, artifacts, now, dq, sq, cq, cstats,
                 cancelReq, findReq, sq2, cq2, cstats2, served, impl, uuid,
                 sched>>
\* the ticker of a running loop puts a tick in its channel, which holds one;
\* the cleaner's timer is made anew by every select
tickerFires ==
  /\ \E w \in Workers :
       /\ loops[w].at \in (IF w = "cleaner" THEN {"select"}
                           ELSE {"select", "tick"})
       /\ ~loops[w].due
       /\ loops' = [loops EXCEPT ![w].due = TRUE]
       /\ last' = [Step("tickerFires", 0, "OK", <<>>) EXCEPT !.req = w]
  /\ UNCHANGED <<scans, findings, jobs, artifacts, now, dq, sq, cq, cstats,
                 cancelReq, findReq, sq2, cq2, cstats2, served, impl, uuid,
                 sched>>
\* w.Stop(): close(stopChan), once, as main does
Stop ==
  /\ \E w \in Workers :
       /\ loops[w].at # "idle"
       /\ ~loops[w].stop
       /\ loops' = [loops EXCEPT ![w].stop = TRUE]
       /\ last' = [Step("Stop", 0, "OK", <<>>) EXCEPT !.req = w]
  /\ UNCHANGED <<scans, findings, jobs, artifacts, now, dq, sq, cq, cstats,
                 cancelReq, findReq, sq2, cq2, cstats2, served, impl, uuid,
                 sched>>
\* the context the three loops were started with is cancelled
cancel ==
  /\ \E w \in Workers : loops[w].at # "idle" /\ ~loops[w].done
  /\ loops' = [w \in Workers |-> [loops[w] EXCEPT !.done = TRUE]]
  /\ last' = Step("cancel", 0, "OK", <<>>)
  /\ UNCHANGED <<scans, findings, jobs, artifacts, now, dq, sq, cq, cstats,
                 cancelReq, findReq, sq2, cq2, cstats2, served, impl, uuid,
                 sched>>
\* select takes the case of the ticker: it may take any case that is ready
selectTick ==
  /\ \E w \in Workers, n \in 0..MaxScans :
       /\ loops[w].at = "select"
       /\ loops[w].due
       /\ loops' = [loops EXCEPT ![w].at = "tick",
                                 ![w].left = n,
                                 ![w].due = FALSE]
       /\ last' = [Step("selectTick", 0, "OK", <<>>) EXCEPT !.req = w]
  /\ UNCHANGED <<scans, findings, jobs, artifacts, now, dq, sq, cq, cstats,
                 cancelReq, findReq, sq2, cq2, cstats2, served, impl, uuid,
                 sched>>
\* the tick handles the next scan of its list
perScanStep ==
  /\ \E w \in Workers :
       /\ loops[w].at = "tick"
       /\ loops[w].left > 0
       /\ loops' = [loops EXCEPT ![w].left = @ - 1]
       /\ last' = [Step("perScanStep", 0, "OK", <<>>) EXCEPT !.req = w]
  /\ UNCHANGED <<scans, findings, jobs, artifacts, now, dq, sq, cq, cstats,
                 cancelReq, findReq, sq2, cq2, cstats2, served, impl, uuid,
                 sched>>
\* the tick returns to the select
tickReturns ==
  /\ \E w \in Workers :
       /\ loops[w].at = "tick"
       /\ loops[w].left = 0
       /\ loops' = [loops EXCEPT ![w].at = "select"]
       /\ last' = [Step("tickReturns", 0, "OK", <<>>) EXCEPT !.req = w]
  /\ UNCHANGED <<scans, findings, jobs, artifacts, now, dq, sq, cq, cstats,
                 cancelReq, findReq, sq2, cq2, cstats2, served, impl, uuid,
                 sched>>
\* select takes case <-stopChan or case <-ctx.Done(): Start returns, and
\* its deferred ticker.Stop() runs
selectReturn ==
  /\ \E w \in Workers :
       /\ loops[w].at = "select"
       /\ loops[w].stop \/ loops[w].done
       /\ loops' = [loops EXCEPT ![w].at = "returned", ![w].due = FALSE]
       /\ last' = [Step("selectReturn", 0, "OK", <<>>) EXCEPT !.req = w]
  /\ UNCHANGED <<scans, findings, jobs, artifacts, now, dq, sq, cq, cstats,
                 cancelReq, findReq, sq2, cq2, cstats2, served, impl, uuid,
                 sched>>
(***************************************************************************)
(* The system: the request API and the three loops, interleaved.           *)
(***************************************************************************)
Next ==
  \/ Tick
  \/ CreateScan
  \/ CreateTenantScan
  \/ GetScanRead
  \/ ListScans
  \/ UpdateScan
  \/ CancelScanGet
  \/ CancelScanWrite
  \/ CreateFindingsGet
  \/ CreateFindingsWrite
  \/ DeleteScan
  \/ DeleteProjectScans
  \/ dispatch
  \/ dispatchScan
  \/ sweep
  \/ processScan
  \/ cleanup
  \/ cleanupScan
  \/ sweep2
  \/ processScan2
  \/ cleanup2
  \/ cleanupScan2
  \/ processScanGiven
  \/ processScanFailed
  \/ cleanerStart
  \/ clockTick
  \/ cleanerTimer
  \/ cleanerRecompute
  \/ loopStart
  \/ tickerFires
  \/ Stop
  \/ cancel
  \/ selectTick
  \/ perScanStep
  \/ tickReturns
  \/ selectReturn

Spec == Init /\ [][Next]_vars

\* the system as built: the finding repository and the cleaner of the
\* source, and scan ids that differ in their first 8 characters
InitBuilt ==
  /\ Init
  /\ impl.findingRepo = "full"
  /\ impl.cleaner = "final"
  /\ uuid = DistinctPrefixes

(***************************************************************************)
(* Parts of the system.  Every behaviour of a part is a behaviour of Spec. *)
(*                                                                         *)
(* SpecApi is the request API with the dispatcher; the cleaner, which it   *)
(* leaves out, is fixed to one variant.                                    *)
(*                                                                         *)
(* SpecCleaner is the life of one scan up to its teardown: it is created,  *)
(* dispatched, reported on by its runner, and torn down by the cleaner or  *)
(* by DeleteScan, as time passes.  No findings are stored, and the finding *)
(* repository is fixed to one variant.                                     *)
(***************************************************************************)
NextApi ==
  \/ CreateScan
  \/ UpdateScan
  \/ CancelScanGet
  \/ CancelScanWrite
  \/ CreateFindingsGet
  \/ CreateFindingsWrite
  \/ DeleteScan
  \/ DeleteProjectScans
  \/ dispatch
  \/ dispatchScan

InitApi == Init /\ impl.cleaner = "final" /\ uuid = DistinctPrefixes

SpecApi == InitApi /\ [][NextApi]_vars

\* CreateScan while no scan exists
CreateOneScan == CreateScan /\ \A id \in ScanIds : ~Exists(scans, id)

NextCleaner ==
  \/ Tick
  \/ CreateOneScan
  \/ UpdateScan
  \/ dispatch
  \/ dispatchScan
  \/ cleanup
  \/ cleanupScan
  \/ DeleteScan

InitCleaner == Init /\ impl.findingRepo = "full" /\ uuid = DistinctPrefixes

SpecCleaner == InitCleaner /\ [][NextCleaner]_vars

(***************************************************************************)
(* SpecFindings is the life of one scan and its findings: the runner       *)
(* stores batches of findings while the scan is deleted on request or      *)
(* torn down by the cleaner.                                               *)
(***************************************************************************)
NextFindings ==
  \/ Tick
  \/ CreateOneScan
  \/ CreateFindingsGet
  \/ CreateFindingsWrite
  \/ DeleteScan
  \/ cleanup
  \/ cleanupScan

InitFindings == Init /\ uuid = DistinctPrefixes

SpecFindings == InitFindings /\ [][NextFindings]_vars

(***************************************************************************)
(* SpecReplicas is the life of one scan under the dispatcher, two replicas *)
(* of the sweeper and two of the cleaner.                                  *)
(***************************************************************************)
NextReplicas ==
  \/ CreateOneScan
  \/ dispatch
  \/ dispatchScan
  \/ sweep
  \/ processScan
  \/ sweep2
  \/ processScan2
  \/ cleanup
  \/ cleanupScan
  \/ cleanup2
  \/ cleanupScan2

SpecReplicas == InitBuilt /\ [][NextReplicas]_vars

(***************************************************************************)
(* SpecSweeper is the life of one scan under the dispatcher and the        *)
(* sweeper, with its runner reporting and its user cancelling it.          *)
(***************************************************************************)
NextSweeper ==
  \/ CreateOneScan
  \/ UpdateScan
  \/ CancelScanGet
  \/ CancelScanWrite
  \/ dispatch
  \/ dispatchScan
  \/ sweep
  \/ processScan

SpecSweeper == InitBuilt /\ [][NextSweeper]_vars

(***************************************************************************)
(* SpecDispatcher is the dispatcher at work on scans created at different  *)
(* times.                                                                  *)
(***************************************************************************)
NextDispatcher ==
  \/ Tick
  \/ CreateScan
  \/ dispatch
  \/ dispatchScan

SpecDispatcher == InitBuilt /\ [][NextDispatcher]_vars

(***************************************************************************)
(* SpecWorkers is the three loops at work on up to two scans: each tick of *)
(* the dispatcher, the sweeper and the cleaner lists and walks its list.   *)
(***************************************************************************)
NextWorkers ==
  \/ CreateTenantScan
  \/ dispatch
  \/ dispatchScan
  \/ sweep
  \/ processScan
  \/ cleanup
  \/ cleanupScan

SpecWorkers == InitBuilt /\ [][NextWorkers]_vars

(***************************************************************************)
(* SpecJobStatus is the sweeper at work on one scan with a workload        *)
(* manager that answers its status queries: what processScan does with     *)
(* each answer, for a scan listed as queued or as running.                 *)
(***************************************************************************)
NextJobStatus ==
  \/ CreateOneScan
  \/ UpdateScan
  \/ dispatch
  \/ dispatchScan
  \/ sweep
  \/ processScanGiven

SpecJobStatus == InitBuilt /\ [][NextJobStatus]_vars

(***************************************************************************)
(* SpecErrorMessage is the failed branch of processScan on every job       *)
(* status and log it can be given.                                         *)
(***************************************************************************)
processScanFailedOnce == last.op = "init" /\ processScanFailed

NextErrorMessage == processScanFailedOnce

SpecErrorMessage == InitBuilt /\ [][NextErrorMessage]_vars

(***************************************************************************)
(* SpecRetry is the cleaner at work, cycle after cycle, on one scan that   *)
(* the dispatcher failed: every cycle that can start does start, and the   *)
(* store, the workload manager and the blob service do not fail for ever.  *)
(***************************************************************************)
\* a cleanup in which every List succeeds
cleanupSucceeds ==
  /\ cleanup
  /\ \A id \in ScanIds :
       (Exists(scans, id) /\ IsTerminal(scans[id]))
         => \E i \in 1..Len(cq') : cq'[i].id = id

\* a cleanupScan in which every call succeeds
cleanupScanSucceeds == cleanupScan /\ last'.code = "OK"

NextRetry ==
  \/ CreateOneScan
  \/ dispatch
  \/ dispatchScan
  \/ cleanup
  \/ cleanupScan

SpecRetry ==
  /\ InitBuilt
  /\ [][NextRetry]_vars
  /\ WF_vars(cleanup)
  /\ WF_vars(cleanupScan)
  /\ SF_vars(cleanupSucceeds)
  /\ SF_vars(cleanupScanSucceeds)

(***************************************************************************)
(* SpecTenants is the request API as two organizations use it: scans of    *)
(* both are created and updated, and read by GetScan and ListScans.        *)
(***************************************************************************)
NextTenants ==
  \/ CreateTenantScan
  \/ UpdateScan
  \/ GetScanRead
  \/ ListScans

SpecTenants == InitBuilt /\ [][NextTenants]_vars

(***************************************************************************)
(* Properties.  A property of one step reads the step in last' and the     *)
(* state before it in the unprimed variables.                              *)
(***************************************************************************)
\* the names of the calls of a step, in the order made
CallNames(calls) == [i \in 1..Len(calls) |-> calls[i].call]

Called(calls, name) == \E i \in 1..Len(calls) : calls[i].call = name

Succeeded(calls, name) ==
  \E i \in 1..Len(calls) : calls[i].call = name /\ calls[i].ok

Failed(calls, name) ==
  \E i \in 1..Len(calls) : calls[i].call = name /\ ~calls[i].ok

\* the edges of the status lifecycle
LifecycleEdges ==
  {<<ScanStatusQueued, ScanStatusRunning>>,
   <<ScanStatusQueued, ScanStatusCancelled>>,
   <<ScanStatusRunning, ScanStatusCompleted>>,
   <<ScanStatusRunning, ScanStatusFailed>>,
   <<ScanStatusRunning, ScanStatusCancelled>>}

\* C1: a scan whose stored status is completed, failed or cancelled never
\* has its stored status changed to a different value, whatever step is
\* taken next.
C1_TerminalStatusNeverChanges ==
  [][\A id \in ScanIds :
       (Exists(scans, id) /\ IsTerminal(scans[id]))
       => scans'[id].status = scans[id].status]_vars

\* C2: every change of a stored status away from queued or running follows
\* an edge of the lifecycle: queued to running or cancelled, running to
\* completed, failed or cancelled.
C2_StatusChangesFollowLifecycle ==
  [][\A id \in ScanIds :
       (/\ Exists(scans, id)
        /\ ~IsTerminal(scans[id])
        /\ scans'[id].status # scans[id].status)
       => <<scans[id].status, scans'[id].status>> \in LifecycleEdges]_vars

\* C3: after DeleteScan has returned success for a scan id, the store holds
\* no finding of that scan and no row with that id: GetScan returns
\* NotFound and no List returns the scan.
C3_DeleteScanRemovesScanAndFindings ==
  (last.op = "DeleteScan" /\ last.code = "OK")
  => /\ findings[last.id] = 0
     /\ GetScan(scans, last.id) = "NotFound"
     /\ \A l \in List(scans, NoFilter) :
          \A i \in 1..Len(l) : l[i].id # last.id

\* C4: every scan the cleaner passes to cleanupScan was listed with status
\* completed, failed or cancelled, and its stored status is one of these
\* when it is torn down.
C4_CleanerTearsDownOnlyTerminalScans ==
  [][last'.op = "cleanupScan"
     => /\ IsTerminal(Head(cq))
        /\ IsTerminal(scans[Head(cq).id])]_vars

\* C5: every scan torn down by the cleaner that lists by final status was
\* created before the cutoff, now - RetentionDays.
C5_CleanerTearsDownOnlyOldScans ==
  [][(last'.op = "cleanupScan" /\ impl.cleaner = "final")
     => Head(cq).created_at < cutoffDate]_vars

\* the row a teardown step works on: the row DeleteScan has read, the
\* listed scan for cleanupScan
TornDown == IF last'.op = "DeleteScan" THEN scans[last'.id] ELSE Head(cq)

\* the calls of a teardown step after the row was read
TeardownCalls ==
  IF last'.op = "DeleteScan" THEN Tail(last'.calls) ELSE last'.calls

\* the calls every teardown of `scan` starts with, in order
TeardownPrefix(scan) ==
  (IF scan.job_name # NoString THEN <<"DeleteJob">> ELSE <<>>)
  \o (IF scan.source_archive_key # NoString THEN <<"DeleteArtifacts">>
      ELSE <<>>)
  \o <<"DeleteByScanID">>

\* C6: a teardown by the cleaner or by DeleteScan calls, in this order, the
\* job delete (only if the scan has a job name), the artifact delete (only
\* if it has a source archive), the findings delete and the scan row
\* delete; the row delete is issued only after the findings delete has
\* returned success.
C6_TeardownCallOrder ==
  [][(/\ last'.op \in {"DeleteScan", "cleanupScan"}
      /\ last'.code # "NotFound")
     => /\ CallNames(TeardownCalls) \in
             {TeardownPrefix(TornDown), TeardownPrefix(TornDown) \o <<"Delete">>}
        /\ Called(TeardownCalls, "Delete")
           => TeardownCalls[Len(TeardownCalls) - 1] =
                Call("DeleteByScanID", TRUE)]_vars

\* C6 witness: the cleaner has torn down a scan with a job and a source
\* archive, making all four calls
C6_Witness ==
  /\ last.op = "cleanupScan"
  /\ CallNames(last.calls) =
       <<"DeleteJob", "DeleteArtifacts", "DeleteByScanID", "Delete">>

\* C7: in cleanupScan an error of the job delete or of the artifact delete
\* does not stop the cleanup: the findings delete is still called, and the
\* scan counts as a success when it and the row delete succeed.  An error
\* of the findings delete ends the cleanup of the scan with no row delete,
\* leaves the scans table as it is and counts as a failure; an error of
\* the row delete counts as a failure.
C7_CleanupScanErrors ==
  [][last'.op = "cleanupScan"
     => /\ Called(last'.calls, "DeleteByScanID")
        /\ (Succeeded(last'.calls, "DeleteByScanID")
            /\ Succeeded(last'.calls, "Delete"))
           => cstats' = [cstats EXCEPT !.success = @ + 1]
        /\ Succeeded(last'.calls, "DeleteByScanID")
           => Called(last'.calls, "Delete")
        /\ Failed(last'.calls, "DeleteByScanID")
           => /\ ~Called(last'.calls, "Delete")
              /\ scans' = scans
              /\ cstats' = [cstats EXCEPT !.failure = @ + 1]
        /\ Failed(last'.calls, "Delete")
           => cstats' = [cstats EXCEPT !.failure = @ + 1]]_vars

\* C7 witness: a scan counted as a success although its job delete and its
\* artifact delete failed
C7_Witness ==
  /\ last.op = "cleanupScan"
  /\ Failed(last.calls, "DeleteJob")
  /\ Failed(last.calls, "DeleteArtifacts")
  /\ Succeeded(last.calls, "Delete")
  /\ cstats.success > 0

\* a step in which CancelScan reads the row of scan id
CancelScanReads(id) ==
  /\ cancelReq = NoReq
  /\ last'.op \in {"CancelScan", "CancelScanGet"}
  /\ last'.id = id
  /\ Exists(scans, id)

\* C8: CancelScan on a scan stored as completed or failed returns
\* FailedPrecondition with the message "scan already completed", makes no
\* call to the workload manager and leaves the scan row, and the jobs, as
\* they are.
C8_CancelCompletedOrFailedIsRejected ==
  [][\A id \in ScanIds :
       (/\ CancelScanReads(id)
        /\ scans[id].status \in {ScanStatusCompleted, ScanStatusFailed})
       => /\ last'.op = "CancelScan"
          /\ last'.code = "FailedPrecondition"
          /\ last'.msg = "scan already completed"
          /\ last'.calls = <<Call("Get", TRUE)>>
          /\ cancelReq' = NoReq
          /\ scans' = scans
          /\ jobs' = jobs]_vars

\* C8 witness: CancelScan has been rejected for a scan stored as failed
C8_Witness ==
  /\ last.op = "CancelScan"
  /\ last.code = "FailedPrecondition"
  /\ scans[last.id].status = ScanStatusFailed

\* C9: CancelScan on a scan stored as cancelled returns success without a
\* call to the workload manager and without a write: the store, the jobs
\* and the artifacts are as before, so a second CancelScan leaves the
\* state the first one left.
C9_CancelCancelledIsNoOp ==
  [][\A id \in ScanIds :
       (/\ CancelScanReads(id)
        /\ scans[id].status = ScanStatusCancelled)
       => /\ last'.op = "CancelScan"
          /\ last'.code = "OK"
          /\ last'.calls = <<Call("Get", TRUE)>>
          /\ cancelReq' = NoReq
          /\ <<scans, findings, jobs, artifacts>>' =
               <<scans, findings, jobs, artifacts>>]_vars

\* C9 witness: CancelScan has returned success having only read the row
C9_Witness ==
  /\ last.op = "CancelScan"
  /\ last.code = "OK"
  /\ last.calls = <<Call("Get", TRUE)>>
  /\ scans[last.id].status = ScanStatusCancelled

\* C10: CancelScan on a scan it reads as queued or running goes on to the
\* status write; it calls the job cancel exactly when the row it read has
\* a job name, and before the status write; when the status write succeeds
\* it returns success with status cancelled stored, whether the job cancel
\* succeeded or failed.
C10_CancelQueuedOrRunning ==
  [][/\ \A id \in ScanIds :
          (/\ CancelScanReads(id)
           /\ scans[id].status \in {ScanStatusQueued, ScanStatusRunning})
          => /\ last'.op = "CancelScanGet"
             /\ cancelReq'.id = id
             /\ cancelReq'.job_name = scans[id].job_name
     /\ (cancelReq # NoReq /\ last'.op = "CancelScan")
        => /\ CallNames(last'.calls) =
                (IF cancelReq.job_name # NoString THEN <<"CancelJob">>
                 ELSE <<>>) \o <<"UpdateStatus">>
           /\ Succeeded(last'.calls, "UpdateStatus")
              => /\ last'.code = "OK"
                 /\ scans'[cancelReq.id].status = ScanStatusCancelled]_vars

\* C10 witness: CancelScan has returned success with status cancelled
\* stored after a job cancel that failed
C10_Witness ==
  /\ last.op = "CancelScan"
  /\ last.code = "OK"
  /\ last.calls = <<Call("CancelJob", FALSE), Call("UpdateStatus", TRUE)>>
  /\ scans[last.id].status = ScanStatusCancelled

C12_CancelDuringDispatchStays ==
  [][/\ \A id \in ScanIds :
          (/\ last.op = "CancelScan"
           /\ last.id = id
           /\ Succeeded(last.calls, "UpdateStatus")
           /\ dq # <<>>
           /\ Head(dq).id = id
           /\ last'.op = "dispatchScan"
           /\ jobs' # jobs)
          => scans'[id].status = ScanStatusCancelled
     /\ last'.op \in {"sweep", "processScan"}
        => \A id \in ScanIds :
             (Exists(scans, id) /\ scans[id].status = ScanStatusCancelled)
             => scans'[id].status = ScanStatusCancelled]_vars

\* C13: DeleteScan on an id with no row returns NotFound having made no
\* delete call, and leaves the store, the jobs and the artifacts as they
\* are.  DeleteScan on a scan that exists, in any status and of any age,
\* returns success and removes the row whenever its findings delete and
\* its row delete succeed, also when the job delete or the artifact delete
\* has failed.
C13_DeleteScanMissingAndExisting ==
  [][last'.op = "DeleteScan"
     => IF ~Exists(scans, last'.id)
        THEN /\ last'.code = "NotFound"
             /\ last'.calls = <<Call("Get", FALSE)>>
             /\ <<scans, findings, jobs, artifacts>>' =
                  <<scans, findings, jobs, artifacts>>
        ELSE (/\ Succeeded(last'.calls, "DeleteByScanID")
              /\ Succeeded(last'.calls, "Delete"))
             => /\ last'.code = "OK"
                /\ ~Exists(scans', last'.id)]_vars

\* the fields CreateScan requires are not all there
CreateScanLacks(req) ==
  \/ req.organization_id = ""
  \/ req.project_id = ""
  \/ Len(req.scan_types) = 0
  \/ (req.git_url = "" /\ req.source_artifact_id = "")

\* C14: CreateScan answers InvalidArgument, with the scans table as it was,
\* to every request without an organization id, without a project id, with
\* no scan type, or with neither a repository URL nor a source archive id;
\* a request it does not answer with success inserts nothing; a request it
\* answers with success has inserted exactly one row, whose status is
\* queued, whose job name is null and whose scan types are not empty.
C14_CreateScanValidation ==
  [][last'.op = "CreateScan"
     => /\ CreateScanLacks(last'.req)
           => (last'.code = "InvalidArgument" /\ scans' = scans)
        /\ last'.code # "OK" => scans' = scans
        /\ last'.code = "OK"
           => /\ ~Exists(scans, last'.id)
              /\ Exists(scans', last'.id)
              /\ \A o \in ScanIds \ {last'.id} : scans'[o] = scans[o]
              /\ scans'[last'.id].status = ScanStatusQueued
              /\ scans'[last'.id].job_name = NoString
              /\ Len(scans'[last'.id].scan_types) > 0]_vars

\* C14 witness: CreateScan has accepted a request with a source archive id
\* and no repository URL, as the second scan of the store
C14_Witness ==
  /\ last.op = "CreateScan"
  /\ last.code = "OK"
  /\ last.req.git_url = ""
  /\ last.id = 2
  /\ scans[2].status = ScanStatusQueued

\* C15: a CreateFindings call that gets past the check of the scan and
\* returns success for a batch of n findings has added exactly n finding
\* rows to its scan and reports n as created count (nothing for n = 0); a
\* call that returns an error has added none; no call touches the findings
\* of another scan.  This holds of each call by itself, so of each of two
\* calls in flight for one scan.
C15_CreateFindingsAllOrNothing ==
  [][(last'.op = "CreateFindings" /\ last'.code # "NotFound")
     => /\ last'.code = "OK"
           => /\ findings'[last'.id] = findings[last'.id] + last'.req.n
              /\ last'.count = last'.req.n
        /\ last'.code # "OK" => findings' = findings
        /\ \A o \in ScanIds \ {last'.id} : findings'[o] = findings[o]]_vars

\* C16: every scan that has finding rows has a scan row.
C16_FindingsReferenceExistingScan ==
  \A id \in ScanIds : findings[id] > 0 => Exists(scans, id)

\* C16 witness: a batch has been stored for a scan that the cleaner tore
\* down after CreateFindings had checked that the scan exists
C16_Witness ==
  /\ last.op = "CreateFindings"
  /\ last.code = "OK"
  /\ findings[last.id] > 0
  /\ scans[last.id].status = ScanStatusCancelled
  /\ served = 2

\* C17: in every scan row completed_at is set exactly when the stored
\* status is completed or failed, and started_at is set when the stored
\* status is running (a status that is running has been running).
C17_TimestampsMatchStatus ==
  \A id \in ScanIds :
    Exists(scans, id)
    => /\ scans[id].completed_at
          <=> scans[id].status \in {ScanStatusCompleted, ScanStatusFailed}
       /\ scans[id].status = ScanStatusRunning => scans[id].started_at

\* C18: a scan row has a job name exactly when the dispatcher has created
\* a job for the scan: the row has a job name after every dispatcher step
\* that created a job for it, and a row gets a job name only in such a
\* step.
C18_JobNameIffJobCreated ==
  [][\A id \in ScanIds :
       /\ (last'.op = "dispatchScan" /\ last'.id = id /\ jobs' # jobs)
          => scans'[id].job_name # NoString
       /\ (/\ Exists(scans', id)
           /\ scans'[id].job_name # NoString
           /\ (Exists(scans, id) => scans[id].job_name = NoString))
          => (last'.op = "dispatchScan" /\ last'.id = id /\ jobs' # jobs)]_vars

\* the sum of the counters by severity of a scan row
SeverityCount(scan) ==
  scan.critical_count + scan.high_count + scan.medium_count + scan.low_count

\* C19: in every scan row the sum of the critical, high, medium and low
\* counters is at most the total finding count, and no UpdateScan, no
\* write of the dispatcher and no write of the sweeper lowers the total
\* finding count of a scan.
C19_CountersConsistentAndMonotonic ==
  [][\A id \in ScanIds :
       /\ Exists(scans', id)
          => SeverityCount(scans'[id]) <= scans'[id].findings_count
       /\ (/\ Exists(scans, id)
           /\ last'.op \in {"UpdateScan", "dispatchScan", "processScan"})
          => scans'[id].findings_count >= scans[id].findings_count]_vars

\* the scans of project p in table tbl
ScansOfProject(tbl, p) ==
  {id \in ScanIds : Exists(tbl, id) /\ tbl[id].project_id = p}

\* C20: a DeleteProjectScans whose list succeeds calls DeleteScan once for
\* every scan of the project, whether earlier calls failed or not, and
\* returns as deleted count the number of calls that succeeded; when all
\* of them succeed, the store holds no scan of the project afterwards.
C20_DeleteProjectScans ==
  [][(last'.op = "DeleteProjectScans" /\ last'.code = "OK")
     => LET calls == Tail(last'.calls)
            p == last'.req.project_id
        IN  /\ Len(calls) = Cardinality(ScansOfProject(scans, p))
            /\ \A i \in 1..Len(calls) : calls[i].call = "DeleteScan"
            /\ last'.count =
                 Cardinality({i \in 1..Len(calls) : calls[i].ok})
            /\ (\A i \in 1..Len(calls) : calls[i].ok)
               => ScansOfProject(scans', p) = {}]_vars

\* the steps of the sweeper and cleaner replicas
ReplicaSteps ==
  {"sweep", "processScan", "cleanup", "cleanupScan",
   "sweep2", "processScan2", "cleanup2", "cleanupScan2"}

\* C21: with two replicas of the sweeper and two of the cleaner on one
\* store, no step of a replica takes a scan out of a terminal status and
\* no step leaves a finding without a scan row, so that a scan ends with
\* the status and the findings it would have with one replica of each.
C21_ReplicasKeepInvariants ==
  [][last'.op \in ReplicaSteps
     => \A id \in ScanIds :
          /\ (Exists(scans, id) /\ IsTerminal(scans[id]))
             => (Exists(scans', id)
                 => scans'[id].status = scans[id].status)
          /\ findings'[id] > 0 => Exists(scans', id)]_vars


\* the store without the scans of the organizations other than org
WithoutOthers(tbl, org) ==
  [id \in ScanIds |->
     IF Exists(tbl, id) /\ tbl[id].organization_id # org
     THEN NoRow
     ELSE tbl[id]]

OnlyOf(resp, org) ==
  \A i \in 1..Len(resp.scans) : resp.scans[i].organization_id = org

\* C22: a ListScans request with an organization id returns scans of that
\* organization only, a GetScan sent by a caller of an organization returns
\* no scan of another one, and either response is one the store without the
\* other organizations' scans gives as well.
C22_ReadsStayInOrganization ==
  [][/\ (last'.op = "ListScans"
          /\ last'.req.organization_id \in Organizations)
        => /\ OnlyOf(last'.resp, last'.req.organization_id)
           /\ last'.resp \in
                ListScansResponses(
                  WithoutOthers(scans, last'.req.organization_id),
                  last'.req)
     /\ last'.op = "GetScan"
        => /\ OnlyOf(last'.resp, last'.req.caller)
           /\ last'.resp \in
                GetScanResponses(WithoutOthers(scans, last'.req.caller),
                                 last'.req.id)]_vars

\* C23: when dispatchScan has created the job and its Update has succeeded,
\* the stored row has status running, started_at set, and the name and the
\* namespace of the created job.
C23_DispatchedRowHoldsJob ==
  [][(last'.op = "dispatchScan" /\ last'.code = "OK" /\ jobs' # jobs)
       => /\ scans'[last'.id].status = ScanStatusRunning
          /\ scans'[last'.id].started_at
          /\ scans'[last'.id].job_name = JobNameOf(last'.id)
          /\ scans'[last'.id].job_namespace = ConfigNamespace]_vars

\* C24: a sweep that lists lists every running scan, and a processScan on a
\* scan listed as running whose job the dispatcher created asks the status
\* of that job, by the name and the namespace it was created with.
C24_SweeperQueriesCreatedJob ==
  [][/\ (last'.op = "sweep" /\ last'.code = "OK")
        => \A id \in ScanIds :
             (Exists(scans, id) /\ scans[id].status = ScanStatusRunning)
               => \E i \in 1..Len(sq') : sq'[i].id = id
     /\ (/\ last'.op = "processScan"
         /\ Head(sq).status = ScanStatusRunning
         /\ <<ConfigNamespace, JobNameOf(last'.id)>> \in jobs)
        => /\ Called(last'.calls, "GetJobStatus")
           /\ last'.req = [name |-> JobNameOf(last'.id),
                           namespace |-> ConfigNamespace]]_vars

\* C25: within a dispatcher tick the job of a listed scan is requested
\* before the job of any listed scan created after it: when dispatchScan
\* takes a scan, no scan still waiting in the tick's list is older.
C25_DispatchOldestFirst ==
  [][(last'.op = "dispatchScan" /\ Called(last'.calls, "Create"))
       => \A i \in 1..Len(dq') :
            Head(dq).created_at <= dq'[i].created_at]_vars

\* the SOURCE_DOWNLOAD_URL entries of the environment of a job
DownloadUrlEnv(job) == {e \in job.env : e[1] = "SOURCE_DOWNLOAD_URL"}

\* what C26 says of every dispatchScan apart from the created job: the URL is
\* asked for exactly when the scan has a source archive; when that fails no
\* job is requested or created and the scan is stored as failed with the
\* error text; a job for a scan without archive has no SOURCE_DOWNLOAD_URL
DispatchAsksForUrl ==
  /\ Called(last'.calls, "GetArtifact")
       <=> Head(dq).source_archive_key # NoString
  /\ Failed(last'.calls, "GetArtifact")
       => /\ ~Called(last'.calls, "Create")
          /\ jobs' = jobs
          /\ last'.msg # ""
          /\ last'.code = "OK"
               => /\ scans'[last'.id].status = ScanStatusFailed
                  /\ scans'[last'.id].error_message = last'.msg
  /\ (Head(dq).source_archive_key = NoString /\ jobs' # jobs)
       => DownloadUrlEnv(last'.req) = {}

AnyCallFailed(step) == \E i \in 1..Len(step.calls) : ~step.calls[i].ok

\* C28: a step of the dispatcher, the sweeper or the cleaner handles the
\* first scan of its tick's list and leaves every later scan of the list to
\* be handled, whatever its calls returned; and whenever a worker's list is
\* used up, after failures as well, its next tick can start.
C28_TickWalksWholeList ==
  /\ [][/\ last'.op = "dispatchScan"
           => (last'.id = Head(dq).id /\ dq' = Tail(dq))
        /\ last'.op = "processScan"
           => (last'.id = Head(sq).id /\ sq' = Tail(sq))
        /\ last'.op = "cleanupScan"
           => (last'.id = Head(cq).id /\ cq' = Tail(cq))]_vars
  /\ [](/\ (dq = <<>> => ENABLED dispatch)
        /\ (sq = <<>> => ENABLED sweep)
        /\ (cq = <<>> => ENABLED cleanup))

\* a later scan of the list is still to be handled after a step that failed
C28_Witness ==
  /\ last.op \in {"dispatchScan", "cleanupScan"}
  /\ AnyCallFailed(last)
  /\ IF last.op = "dispatchScan" THEN dq # <<>> ELSE cq # <<>>

C30_SweeperWritesNothing ==
  [][(/\ last'.op = "processScanGiven"
      /\ \/ Head(sq).job_name = NoString
         \/ Failed(last'.calls, "GetJobStatus")
         \/ /\ Succeeded(last'.calls, "GetJobStatus")
            /\ last'.resp.active = 0
            /\ last'.resp.succeeded = 0
            /\ last'.resp.failed = 0)
       => /\ scans' = scans
          /\ ~Called(last'.calls, "Update")
          /\ Head(sq).job_name = NoString
               => ~Called(last'.calls, "GetJobStatus")]_vars

\* the job of a listed scan answered with no pod at all
C30_Witness ==
  /\ last.op = "processScanGiven"
  /\ Succeeded(last.calls, "GetJobStatus")
  /\ last.resp.active = 0
  /\ last.resp.succeeded = 0
  /\ last.resp.failed = 0
  /\ last.code = "unchanged"

\* the first condition of type Failed, whatever its status; 0 for none
FirstOfTypeFailed(conds) ==
  LET I == {i \in 1..Len(conds) : conds[i].type = "Failed"}
  IN  IF I = {} THEN 0 ELSE CHOOSE i \in I : \A j \in I : i <= j

\* the first condition of type Failed with status True; 0 for none
FirstTrueFailed(conds) ==
  LET I == {i \in 1..Len(conds) :
              conds[i].type = "Failed" /\ conds[i].status = "True"}
  IN  IF I = {} THEN 0 ELSE CHOOSE i \in I : \A j \in I : i <= j

\* the error message C31 describes, with k the condition it is taken from
MessageAsDescribed(step, k) ==
  IF k # 0
  THEN /\ step.msg = (IF step.req[k].message # <<>>
                      THEN step.req[k].message
                      ELSE step.req[k].reason)
       /\ ~Called(step.calls, "GetJobLogs")
  ELSE /\ Called(step.calls, "GetJobLogs")
       /\ IF Failed(step.calls, "GetJobLogs") \/ step.resp.logs = <<>>
          THEN step.msg = DefaultErrorMessage
          ELSE LET n == Len(step.resp.logs)
               IN  IF n > LogTail
                   THEN /\ Len(step.msg) = LogTail + 3
                        /\ \A i \in 1..3 : step.msg[i] = Dot
                        /\ \A i \in 1..LogTail :
                             step.msg[3 + i] = step.resp.logs[n - LogTail + i]
                   ELSE step.msg = step.resp.logs

\* C31 as stated: the error message of a failed job is taken from its first
\* condition of type Failed (message, or reason when the message is empty);
\* without such a condition from the fetched log, cut to its last 500
\* characters after "..." when longer; and is the default text when the log
\* fetch fails or returns nothing.  The log is fetched in no other case.
C31_FailureMessageFromFailedCondition ==
  [][last'.op = "processScanFailed"
       => MessageAsDescribed(last', FirstOfTypeFailed(last'.req))]_vars

\* C31 amended: as C31, with "the first condition of type Failed whose
\* status is True" for "the first condition of type Failed"; a Failed
\* condition with another status is passed over.
C31_FailureMessageFromTrueFailedCondition ==
  [][last'.op = "processScanFailed"
       => MessageAsDescribed(last', FirstTrueFailed(last'.req))]_vars

\* a log longer than 500 characters was cut to its tail
C31_Witness ==
  /\ last.op = "processScanFailed"
  /\ Succeeded(last.calls, "GetJobLogs")
  /\ Len(last.resp.logs) = LogTail + 1
  /\ Len(last.msg) = LogTail + 3
  /\ last.msg[4] = 2

\* the cleanup of scan id was aborted by a failed delete of its findings or
\* of its row
CleanupAborted(id) ==
  /\ last.op = "cleanupScan"
  /\ last.id = id
  /\ Failed(last.calls, "DeleteByScanID") \/ Failed(last.calls, "Delete")

\* C32: a scan whose cleanup was aborted still has its row, a later cycle
\* selects it again, and once the store stops failing its findings and its
\* row are deleted.
C32_AbortedCleanupIsCompleted ==
  \A id \in ScanIds :
    [](CleanupAborted(id)
         => /\ Exists(scans, id)
            /\ <>(\E i \in 1..Len(cq) : cq[i].id = id)
            /\ <>(~Exists(scans, id) /\ findings[id] = 0))

(***************************************************************************)
(* SpecSchedule is Cleaner.Start alone: its clock and its cleanup times.   *)
(***************************************************************************)
NextSchedule ==
  \/ cleanerStart
  \/ clockTick
  \/ cleanerTimer
  \/ cleanerRecompute

SpecSchedule == InitBuilt /\ [][NextSchedule]_vars

\* C33: after each cleanup cycle the recomputed next cleanup time is an
\* occurrence of the configured time of day at least 24 hours after the
\* target time of the cycle just performed, and no cycle starts for the
\* target time of the cycle before it, also when the cycle finishes at the
\* very instant of its target time.
C33_NextCleanupIsADayLater ==
  [][/\ last'.op = "cleanerRecompute"
        => /\ sched'.nextCleanup % DayLength = sched.cleanupTime
           /\ sched'.nextCleanup >= sched.target + DayLength
     /\ last'.op = "cleanerTimer" => sched'.target # sched.target]_vars

(***************************************************************************)
(* SpecLoops is the three Start loops and their Stop.  The scheduler runs  *)
(* every goroutine that can take a step, and a select that again and again *)
(* finds stopChan or ctx.Done() ready takes that case in the end.          *)
(***************************************************************************)
NextLoops ==
  \/ loopStart
  \/ tickerFires
  \/ Stop
  \/ cancel
  \/ selectTick
  \/ perScanStep
  \/ tickReturns
  \/ selectReturn

SpecLoops ==
  /\ InitBuilt
  /\ [][NextLoops]_vars
  /\ \A w \in Workers :
       /\ WF_vars(perScanStep /\ last'.req = w)
       /\ WF_vars(tickReturns /\ last'.req = w)
       /\ SF_vars(selectReturn /\ last'.req = w)

\* worker w has been told to stop: Stop was called or ctx is cancelled
ToldToStop(w) == loops[w].stop \/ loops[w].done

\* C34: after Stop is called on a loop, or its context is cancelled, the
\* loop starts no further tick, and its Start call eventually returns.
C34_StoppedLoopStartsNoTick ==
  /\ [][last'.op = "selectTick" => ~ToldToStop(last'.req)]_vars
  /\ \A w \in Workers :
       [](loops[w].at # "idle" /\ ToldToStop(w)
            => <>(loops[w].at = "returned"))

\* C35: whenever the dispatcher stores a scan as failed, no workload exists
\* for that scan in the workload manager, also when an earlier tick created
\* the workload and then failed to store the scan as running.
C35_FailedScanHasNoWorkload ==
  [][/\ last'.op = "dispatchScan"
     /\ Succeeded(last'.calls, "Update")
     /\ scans'[last'.id].status = ScanStatusFailed
     => <<ConfigNamespace, JobNameOf(last'.id)>> \notin jobs']_vars

(***************************************************************************)
(* SpecJobNames is the dispatcher at work on up to two scans whose ids may *)
(* share their first 8 characters.                                         *)
(***************************************************************************)
NextJobNames ==
  \/ CreateTenantScan
  \/ dispatch
  \/ dispatchScan

InitJobNames == Init /\ impl.findingRepo = "full" /\ impl.cleaner = "final"

SpecJobNames == InitJobNames /\ [][NextJobNames]_vars

\* C36: two distinct scans are never given the same workload name: the
\* dispatcher asks for no workload under a name that the row of another
\* scan holds, also when the two ids share their first 8 characters, and
\* GetByJobName of the name a row holds returns that row and no other.
C36_JobNamesAreDistinct ==
  /\ [][/\ last'.op = "dispatchScan"
        /\ Called(last'.calls, "Create")
        => \A other \in ScanIds \ {last'.id} :
             Exists(scans, other) => scans[other].job_name # last'.req.name]_vars
  /\ [](\A id \in ScanIds :
          Exists(scans, id) /\ scans[id].job_name # NoString
            => GetByJobName(scans, scans[id].job_name) = {scans[id]})

\* C37: a total finding count or error message that UpdateScan wrote to a
\* scan is not reverted by a dispatcher write computed from a copy of the
\* row read before that UpdateScan: the write of dispatchScan leaves the
\* stored finding count as it is, and the stored error message too unless
\* it stores the error of a failed job creation.
C37_LoopWriteKeepsUpdateScanValues ==
  [][/\ last'.op = "dispatchScan"
     /\ Succeeded(last'.calls, "Update")
     => /\ scans'[last'.id].findings_count = scans[last'.id].findings_count
        /\ last'.msg = ""
             => scans'[last'.id].error_message
                  = scans[last'.id].error_message]_vars

\* C38: CancelScan never overwrites a completed or failed status: when the
\* row holds completed or failed at the time CancelScan writes, because it
\* was stored after CancelScan read the scan, the row holds that status
\* after CancelScan returns.
C38_CancelKeepsFinalStatus ==
  [][/\ last'.op = "CancelScan"
     /\ Called(last'.calls, "UpdateStatus")
     /\ scans[last'.id].status \in {ScanStatusCompleted, ScanStatusFailed}
     => scans'[last'.id].status = scans[last'.id].status]_vars

\* C39: a scan that a cleaner cycle cleaned up successfully is not selected
\* by any later cleaner cycle.
C39_CleanedScanIsNotSelectedAgain ==
  \A id \in ScanIds :
    [](last.op = "cleanupScan" /\ last.id = id /\ last.code = "OK"
         => [](\A i \in 1..Len(cq) : cq[i].id # id))

(***************************************************************************)
(* SpecProgress is one scan under the dispatcher and the sweeper, with     *)
(* ticks and per-scan steps scheduled fairly, and a store, a blob service  *)
(* and a workload manager that do not fail for ever: a step that can be    *)
(* taken without a failing call again and again is taken so in the end.    *)
(***************************************************************************)
NextProgress ==
  \/ CreateOneScan
  \/ dispatch
  \/ dispatchScan
  \/ sweep
  \/ processScan

SpecProgress ==
  /\ InitBuilt
  /\ [][NextProgress]_vars
  /\ WF_vars(dispatch)
  /\ WF_vars(dispatchScan)
  /\ WF_vars(sweep)
  /\ WF_vars(processScan)
  /\ SF_vars(dispatch /\ ~AnyCallFailed(last'))
  /\ SF_vars(dispatchScan /\ ~AnyCallFailed(last'))
  /\ SF_vars(sweep /\ ~AnyCallFailed(last'))
  /\ SF_vars(processScan /\ ~AnyCallFailed(last'))

\* the stored status of scan id, "" when there is no such scan
StoredStatus(id) == IF Exists(scans, id) THEN scans[id].status ELSE ""

\* C40: under fair scheduling and services that eventually answer without
\* error, every queued scan eventually leaves queued, and every running
\* scan whose workload exists, and so reports its pods, eventually has
\* stored status completed or failed.
C40_ScansMakeProgress ==
  \A id \in ScanIds :
    /\ [](StoredStatus(id) = ScanStatusQueued
            => <>(StoredStatus(id) # ScanStatusQueued))
    /\ [](/\ StoredStatus(id) = ScanStatusRunning
          /\ <<ConfigNamespace, JobNameOf(id)>> \in jobs
          => <>(StoredStatus(id) \in {ScanStatusCompleted, ScanStatusFailed}))
====
